---- MODULE Spec2Model ----
(***************************************************************************)
(* Ricoh 2A03/2A07 (MOS 6502) CPU emulation of src/src/2a0x.c as a state   *)
(* machine: the CPU record, the physical address map, the host RAM behind  *)
(* it, and the public operations init / map_ram_region / reset / tick.     *)
(***************************************************************************)
EXTENDS Integers, Sequences, FiniteSets, TLC

(* ------------------------------------------------------------------ *)
(* Machine widths and fixed-width bit operations                       *)
(* ------------------------------------------------------------------ *)

\* uint8_t mos_word_t and uint8_t instruction fields; uint16_t mos_pa_t
W8 == 256
W16 == 65536

RECURSIVE BitAnd(_, _)
BitAnd(a, b) ==
    IF a = 0 \/ b = 0 THEN 0
    ELSE (a % 2) * (b % 2) + 2 * BitAnd(a \div 2, b \div 2)

RECURSIVE BitOr(_, _)
BitOr(a, b) ==
    IF a = 0 THEN b
    ELSE IF b = 0 THEN a
    ELSE (IF (a % 2) + (b % 2) > 0 THEN 1 ELSE 0) + 2 * BitOr(a \div 2, b \div 2)

RECURSIVE BitXor(_, _)
BitXor(a, b) ==
    IF a = 0 THEN b
    ELSE IF b = 0 THEN a
    ELSE ((a + b) % 2) + 2 * BitXor(a \div 2, b \div 2)

\* the low 16 bits of ~x for x promoted to a 32-bit int; every use in the
\* source masks the complement with a value of at most 16 bits
BitNot(x) == (W16 - 1) - x

\* A uint32_t is held as <<high half, low half>>, two 16-bit halves, and its
\* arithmetic is modulo 2^32.  U32(n) is the uint32_t of 0 <= n < 2^31
U32(n) == <<n \div W16, n % W16>>

\* a + b in uint32_t
U32Add(a, b) ==
    <<(a[1] + b[1] + ((a[2] + b[2]) \div W16)) % W16, (a[2] + b[2]) % W16>>

\* a - 1 in uint32_t
U32Dec(a) ==
    IF a[2] > 0 THEN <<a[1], a[2] - 1>> ELSE <<(a[1] + W16 - 1) % W16, W16 - 1>>

\* a < b and a <= b on uint32_t
U32Less(a, b) == a[1] < b[1] \/ (a[1] = b[1] /\ a[2] < b[2])
U32LessEq(a, b) == ~U32Less(b, a)

(* ------------------------------------------------------------------ *)
(* Status register bits                                                *)
(* ------------------------------------------------------------------ *)
SR_N == 128
SR_V == 64
SR_U == 32
SR_B == 16
SR_D == 8
SR_I == 4
SR_Z == 2
SR_C == 1

(* ------------------------------------------------------------------ *)
(* Opcode decode table                                                 *)
(* ------------------------------------------------------------------ *)

\* <<opcode, uop, mode, ncycles, xpage_stall, always_stall>>, one per MOS_OP line
MOS_OP ==
    {
      <<234, "NOP", "IMP", 2, FALSE, FALSE>>, <<2, "HLT", "IMP", 1, FALSE, FALSE>>,
      <<18, "HLT", "IMP", 1, FALSE, FALSE>>, <<34, "HLT", "IMP", 1, FALSE, FALSE>>,
      <<50, "HLT", "IMP", 1, FALSE, FALSE>>, <<66, "HLT", "IMP", 1, FALSE, FALSE>>,
      <<82, "HLT", "IMP", 1, FALSE, FALSE>>, <<98, "HLT", "IMP", 1, FALSE, FALSE>>,
      <<114, "HLT", "IMP", 1, FALSE, FALSE>>, <<146, "HLT", "IMP", 1, FALSE, FALSE>>,
      <<178, "HLT", "IMP", 1, FALSE, FALSE>>, <<210, "HLT", "IMP", 1, FALSE, FALSE>>,
      <<242, "HLT", "IMP", 1, FALSE, FALSE>>, <<169, "LDA", "IMM", 2, FALSE, FALSE>>,
      <<165, "LDA", "Z", 3, FALSE, FALSE>>, <<181, "LDA", "ZX", 4, FALSE, FALSE>>,
      <<173, "LDA", "ABS", 4, FALSE, FALSE>>, <<189, "LDA", "ABSX", 4, TRUE, FALSE>>,
      <<185, "LDA", "ABSY", 4, TRUE, FALSE>>, <<161, "LDA", "INDX", 6, FALSE, FALSE>>,
      <<177, "LDA", "INDY", 5, TRUE, FALSE>>, <<162, "LDX", "IMM", 2, FALSE, FALSE>>,
      <<166, "LDX", "Z", 3, FALSE, FALSE>>, <<182, "LDX", "ZY", 4, FALSE, FALSE>>,
      <<174, "LDX", "ABS", 4, FALSE, FALSE>>, <<190, "LDX", "ABSY", 4, TRUE, FALSE>>,
      <<160, "LDY", "IMM", 2, FALSE, FALSE>>, <<164, "LDY", "Z", 3, FALSE, FALSE>>,
      <<180, "LDY", "ZX", 4, FALSE, FALSE>>, <<172, "LDY", "ABS", 4, FALSE, FALSE>>,
      <<188, "LDY", "ABSX", 4, TRUE, FALSE>>, <<133, "STA", "Z", 3, FALSE, FALSE>>,
      <<149, "STA", "ZX", 4, FALSE, FALSE>>, <<141, "STA", "ABS", 4, FALSE, FALSE>>,
      <<157, "STA", "ABSX", 5, FALSE, TRUE>>, <<153, "STA", "ABSY", 5, FALSE, TRUE>>,
      <<129, "STA", "INDX", 6, FALSE, FALSE>>, <<145, "STA", "INDY", 6, FALSE, TRUE>>,
      <<134, "STX", "Z", 3, FALSE, FALSE>>, <<150, "STX", "ZY", 4, FALSE, FALSE>>,
      <<142, "STX", "ABS", 4, FALSE, FALSE>>, <<132, "STY", "Z", 3, FALSE, FALSE>>,
      <<148, "STY", "ZX", 4, FALSE, FALSE>>, <<140, "STY", "ABS", 4, FALSE, FALSE>>,
      <<170, "TAX", "IMP", 2, FALSE, FALSE>>, <<168, "TAY", "IMP", 2, FALSE, FALSE>>,
      <<186, "TSX", "IMP", 2, FALSE, FALSE>>, <<138, "TXA", "IMP", 2, FALSE, FALSE>>,
      <<154, "TXS", "IMP", 2, FALSE, FALSE>>, <<152, "TYA", "IMP", 2, FALSE, FALSE>>,
      <<72, "PHA", "IMP", 3, FALSE, FALSE>>, <<104, "PLA", "IMP", 4, FALSE, FALSE>>,
      <<8, "PHP", "IMP", 3, FALSE, FALSE>>, <<40, "PLP", "IMP", 4, FALSE, FALSE>>,
      <<198, "DEC", "Z", 5, FALSE, FALSE>>, <<214, "DEC", "ZX", 6, FALSE, FALSE>>,
      <<206, "DEC", "ABS", 6, FALSE, FALSE>>, <<222, "DEC", "ABSX", 7, FALSE, TRUE>>,
      <<202, "DEX", "IMP", 2, FALSE, FALSE>>, <<136, "DEY", "IMP", 2, FALSE, FALSE>>,
      <<230, "INC", "Z", 5, FALSE, FALSE>>, <<246, "INC", "ZX", 6, FALSE, FALSE>>,
      <<238, "INC", "ABS", 6, FALSE, FALSE>>, <<254, "INC", "ABSX", 7, FALSE, TRUE>>,
      <<232, "INX", "IMP", 2, FALSE, FALSE>>, <<200, "INY", "IMP", 2, FALSE, FALSE>>,
      <<105, "ADC", "IMM", 2, FALSE, FALSE>>, <<101, "ADC", "Z", 3, FALSE, FALSE>>,
      <<117, "ADC", "ZX", 4, FALSE, FALSE>>, <<109, "ADC", "ABS", 4, FALSE, FALSE>>,
      <<125, "ADC", "ABSX", 4, TRUE, FALSE>>, <<121, "ADC", "ABSY", 4, TRUE, FALSE>>,
      <<97, "ADC", "INDX", 6, FALSE, FALSE>>, <<113, "ADC", "INDY", 5, TRUE, FALSE>>,
      <<233, "SBC", "IMM", 2, FALSE, FALSE>>, <<229, "SBC", "Z", 3, FALSE, FALSE>>,
      <<245, "SBC", "ZX", 4, FALSE, FALSE>>, <<237, "SBC", "ABS", 4, FALSE, FALSE>>,
      <<253, "SBC", "ABSX", 4, TRUE, FALSE>>, <<249, "SBC", "ABSY", 4, TRUE, FALSE>>,
      <<225, "SBC", "INDX", 6, FALSE, FALSE>>, <<241, "SBC", "INDY", 5, TRUE, FALSE>>,
      <<41, "AND", "IMM", 2, FALSE, FALSE>>, <<37, "AND", "Z", 3, FALSE, FALSE>>,
      <<53, "AND", "ZX", 4, FALSE, FALSE>>, <<45, "AND", "ABS", 4, FALSE, FALSE>>,
      <<61, "AND", "ABSX", 4, TRUE, FALSE>>, <<57, "AND", "ABSY", 4, TRUE, FALSE>>,
      <<33, "AND", "INDX", 6, FALSE, FALSE>>, <<49, "AND", "INDY", 5, TRUE, FALSE>>,
      <<73, "EOR", "IMM", 2, FALSE, FALSE>>, <<69, "EOR", "Z", 3, FALSE, FALSE>>,
      <<85, "EOR", "ZX", 4, FALSE, FALSE>>, <<77, "EOR", "ABS", 4, FALSE, FALSE>>,
      <<93, "EOR", "ABSX", 4, TRUE, FALSE>>, <<89, "EOR", "ABSY", 4, TRUE, FALSE>>,
      <<65, "EOR", "INDX", 6, FALSE, FALSE>>, <<81, "EOR", "INDY", 5, TRUE, FALSE>>,
      <<9, "ORA", "IMM", 2, FALSE, FALSE>>, <<5, "ORA", "Z", 3, FALSE, FALSE>>,
      <<21, "ORA", "ZX", 4, FALSE, FALSE>>, <<13, "ORA", "ABS", 4, FALSE, FALSE>>,
      <<29, "ORA", "ABSX", 4, TRUE, FALSE>>, <<25, "ORA", "ABSY", 4, TRUE, FALSE>>,
      <<1, "ORA", "INDX", 6, FALSE, FALSE>>, <<17, "ORA", "INDY", 5, TRUE, FALSE>>,
      <<10, "ASL", "IMP", 2, FALSE, FALSE>>, <<6, "ASL", "Z", 5, FALSE, FALSE>>,
      <<22, "ASL", "ZX", 6, FALSE, FALSE>>, <<14, "ASL", "ABS", 6, FALSE, FALSE>>,
      <<30, "ASL", "ABSX", 7, FALSE, TRUE>>, <<74, "LSR", "IMP", 2, FALSE, FALSE>>,
      <<70, "LSR", "Z", 5, FALSE, FALSE>>, <<86, "LSR", "ZX", 6, FALSE, FALSE>>,
      <<78, "LSR", "ABS", 6, FALSE, FALSE>>, <<94, "LSR", "ABSX", 7, FALSE, TRUE>>,
      <<42, "ROL", "IMP", 2, FALSE, FALSE>>, <<38, "ROL", "Z", 5, FALSE, FALSE>>,
      <<54, "ROL", "ZX", 6, FALSE, FALSE>>, <<46, "ROL", "ABS", 6, FALSE, FALSE>>,
      <<62, "ROL", "ABSX", 7, FALSE, TRUE>>, <<106, "ROR", "IMP", 2, FALSE, FALSE>>,
      <<102, "ROR", "Z", 5, FALSE, FALSE>>, <<118, "ROR", "ZX", 6, FALSE, FALSE>>,
      <<110, "ROR", "ABS", 6, FALSE, FALSE>>, <<126, "ROR", "ABSX", 7, FALSE, TRUE>>,
      <<24, "CLC", "IMP", 2, FALSE, FALSE>>, <<216, "CLD", "IMP", 2, FALSE, FALSE>>,
      <<88, "CLI", "IMP", 2, FALSE, FALSE>>, <<184, "CLV", "IMP", 2, FALSE, FALSE>>,
      <<56, "SEC", "IMP", 2, FALSE, FALSE>>, <<248, "SED", "IMP", 2, FALSE, FALSE>>,
      <<120, "SEI", "IMP", 2, FALSE, FALSE>>
    }

\* the designated initialisers end at 0xFE, so the array has 0xFF elements
TableLen == 255

SupportedOpcodes == {e[1] : e \in MOS_OP}

\* an element the initialiser list does not name is zero: NOP, IMP, 0 cycles
ZeroInstr ==
    [uop |-> "NOP", mode |-> "IMP", cycle |-> 0, ncycles |-> 0,
     address_latched |-> FALSE, xpage_stall |-> FALSE, always_stall |-> FALSE]

\* Faulty variant: the entry of LDA zp counts one cycle too many
mos_opcodes_LongLoad ==
    [b \in 0..(TableLen - 1) |->
        IF b \in SupportedOpcodes
        THEN LET e == CHOOSE x \in MOS_OP : x[1] = b
             IN  [uop |-> e[2], mode |-> e[3], cycle |-> 0,
                  ncycles |-> IF b = 165 THEN e[4] + 1 ELSE e[4],
                  address_latched |-> FALSE, xpage_stall |-> e[5],
                  always_stall |-> e[6]]
        ELSE ZeroInstr]

mos_opcodes ==
    [b \in 0..(TableLen - 1) |->
        IF b \in SupportedOpcodes
        THEN LET e == CHOOSE x \in MOS_OP : x[1] = b
             IN  [uop |-> e[2], mode |-> e[3], cycle |-> 0, ncycles |-> e[4],
                  address_latched |-> FALSE, xpage_stall |-> e[5],
                  always_stall |-> e[6]]
        ELSE ZeroInstr]

(* ------------------------------------------------------------------ *)
(* The world an operation runs in                                      *)
(* ------------------------------------------------------------------ *)
\* A world w is [cpu, ram, aborted, bus, retired]:
\*   cpu      struct mos6502_cpu
\*   ram      the bytes of the host's backing arrays that have been read or
\*            written so far, keyed <<buffer, offset>>; every other byte is
\*            host input that is drawn when it is first read
\*   aborted  an ep_verify / assert failed: _ep_abort ended the process
\*   bus      the bus accesses of the running call, <<kind, pa, byte>>
\*   retired  the value the running mos6502_tick returns

\* ep_verify(false): _ep_abort prints the predicate and calls abort()
ep_abort(w) == [w EXCEPT !.aborted = TRUE]

\* pa <= r->base + (r->size - 1), a uint32_t sum: its high half is not zero,
\* or pa is at most its low half
InRange(r, pa) ==
    \/ (r.size[1] + (r.base + r.size[2] - 1) \div W16) % W16 > 0
    \/ pa <= (r.base + r.size[2] - 1) % W16

\* the least element of a set of region indexes, 0 when there is none
FirstOf(hit) ==
    IF hit = {} THEN 0 ELSE CHOOSE i \in hit : \A j \in hit : i <= j

\* index (from 1) of the first region covering pa; 0 when the scan falls
\* through to ep_verify(false)
map_addr(cpu, pa) ==
    CHOOSE n \in {FirstOf(hit) :
                    hit \in {{i \in 1..cpu.nregions :
                                \E r \in {cpu.pa_map[i]} :
                                    r.base <= pa /\ InRange(r, pa)}}} : TRUE

\* the byte of the backing array r->mapped[pa - r->base]; for an MMIO region,
\* whose bytes are never kept, the handler and the offset it is called with
RamKey(cpu, pa) ==
    LET r == cpu.pa_map[map_addr(cpu, pa)] IN <<r.mapped, pa - r.base>>

\* the value load_word returns; in is the byte the backing array holds when
\* the model has not seen that byte yet, or the byte the handler of an MMIO
\* region stores through its data pointer
load_val(w, pa, in) ==
    IF map_addr(w.cpu, pa) = 0 THEN 0
    ELSE LET k == RamKey(w.cpu, pa)
         IN  IF k \in DOMAIN w.ram THEN w.ram[k] ELSE in

\* Faulty variant: the handler is called with the address, not the offset
Handler_AbsoluteOffset(w, pa, is_write, val) ==
    LET r == w.cpu.pa_map[map_addr(w.cpu, pa)]
    IN  [w EXCEPT !.bus = Append(@, <<"mmio", pa, val, is_write, pa, r>>)]

\* r->handler(cpu, r, is_write, pa - r->base, &val): the call is recorded on
\* the bus as <<"mmio", pa, val, is_write, offset, r>>
Handler(w, pa, is_write, val) ==
    LET r == w.cpu.pa_map[map_addr(w.cpu, pa)]
    IN  [w EXCEPT !.bus = Append(@, <<"mmio", pa, val, is_write, pa - r.base, r>>)]

\* the world after load_word
load_word(w, pa, in) ==
    IF map_addr(w.cpu, pa) = 0 THEN ep_abort(w)
    ELSE IF ~w.cpu.pa_map[map_addr(w.cpu, pa)].is_ram THEN Handler(w, pa, FALSE, in)
    ELSE LET k == RamKey(w.cpu, pa)
         IN  [w EXCEPT !.ram = IF k \in DOMAIN @ THEN @ ELSE (k :> in) @@ @,
                       !.bus = Append(@, <<"load", pa, load_val(w, pa, in)>>)]

store_word(w, pa, val) ==
    IF map_addr(w.cpu, pa) = 0 THEN ep_abort(w)
    ELSE IF ~w.cpu.pa_map[map_addr(w.cpu, pa)].is_ram THEN Handler(w, pa, TRUE, val)
    ELSE LET k == RamKey(w.cpu, pa)
         IN  [w EXCEPT !.ram = (k :> val) @@ @,
                       !.bus = Append(@, <<"store", pa, val>>)]

\* mos_opcodes[load_word(cpu, cpu->PC++)]; an opcode byte of 0xFF indexes one
\* element past the end of the array, and the record read there is whatever
\* the build placed behind the table (oob)
fetch_next_instr(w, in, oob) ==
    LET pc == w.cpu.PC
        b  == load_val(w, pc, in)
        w1 == load_word([w EXCEPT !.cpu.PC = (pc + 1) % W16], pc, in)
    IN  [w1 EXCEPT !.cpu.instr = IF b < TableLen THEN mos_opcodes[b] ELSE oob]

latch_address(w, addr) ==
    [w EXCEPT !.cpu.AB = addr % W16, !.cpu.instr.address_latched = TRUE]

\* Faulty variant: the T+ stage is entered one sub-cycle early
instr_is_tplus_OneEarly(instr) ==
    (instr.uop # "HLT") /\ (instr.cycle + 2 = instr.ncycles)

\* Faulty variant: HLT is given a T+ stage like every other uop
instr_is_tplus_NoHltCase(instr) ==
    instr.cycle + 1 = instr.ncycles

instr_is_tplus(instr) ==
    (instr.uop # "HLT") /\ (instr.cycle + 1 = instr.ncycles)

\* Faulty variant: the page-cross delay is taken but ncycles is not raised
instr_should_stall_NoExtraCycle(instr, base, index) ==
    [stall |-> instr.always_stall
               \/ (BitAnd(BitNot(base), 255) < index /\ instr.xpage_stall),
     instr |-> instr]

\* Faulty variant: base_low + index = 0xFF already counts as a page cross
instr_should_stall_OffByOne(instr, base, index) ==
    IF instr.always_stall
    THEN [stall |-> TRUE, instr |-> instr]
    ELSE IF BitAnd(BitNot(base), 255) <= index /\ instr.xpage_stall
    THEN [stall |-> TRUE, instr |-> [instr EXCEPT !.ncycles = (@ + 1) % W8]]
    ELSE [stall |-> FALSE, instr |-> instr]

\* [stall, instr]: the return value and the instruction it may have changed
instr_should_stall(instr, base, index) ==
    IF instr.always_stall
    THEN [stall |-> TRUE, instr |-> instr]
    ELSE IF BitAnd(BitNot(base), 255) < index /\ instr.xpage_stall
    THEN [stall |-> TRUE, instr |-> [instr EXCEPT !.ncycles = (@ + 1) % W8]]
    ELSE [stall |-> FALSE, instr |-> instr]

change_flags(P, mask, val) ==
    BitOr(BitAnd(P, BitNot(mask)), val) % W8

\* Faulty variant: N is taken from bit 6
set_value_flags_WrongSignBit(P, val) ==
    change_flags(P, SR_Z + SR_N,
                 BitOr(IF val = 0 THEN SR_Z ELSE 0,
                       IF BitAnd(val, 64) # 0 THEN SR_N ELSE 0))

set_value_flags(P, val) ==
    change_flags(P, SR_Z + SR_N,
                 BitOr(IF val = 0 THEN SR_Z ELSE 0,
                       IF BitAnd(val, 128) # 0 THEN SR_N ELSE 0))

\* the cpu after exec_addc(cpu, mval)
\* Faulty variant: the carry flag is not added in
exec_addc_NoCarryIn(cpu, mval) ==
    LET val == (cpu.A + mval) % W16
        res == BitAnd(val, 255)
        P1  == change_flags(cpu.P, SR_V,
                 IF BitAnd(BitAnd(BitXor(cpu.A, res), BitXor(mval, res)), 128) # 0
                 THEN SR_V ELSE 0)
        P2  == change_flags(P1, SR_C, IF val > 255 THEN SR_C ELSE 0)
    IN  [cpu EXCEPT !.P = set_value_flags(P2, res), !.A = res]

exec_addc(cpu, mval) ==
    LET val == (cpu.A + mval + (IF BitAnd(cpu.P, SR_C) # 0 THEN 1 ELSE 0)) % W16
        res == BitAnd(val, 255)
        P1  == change_flags(cpu.P, SR_V,
                 IF BitAnd(BitAnd(BitXor(cpu.A, res), BitXor(mval, res)), 128) # 0
                 THEN SR_V ELSE 0)
        P2  == change_flags(P1, SR_C, IF val > 255 THEN SR_C ELSE 0)
    IN  [cpu EXCEPT !.P = set_value_flags(P2, res), !.A = res]

(* ------------------------------------------------------------------ *)
(* Addressing-mode engine                                              *)
(* ------------------------------------------------------------------ *)

\* x = load_word(cpu, cpu->PC++): the world after it
LoadAtPC(w, in) ==
    load_word([w EXCEPT !.cpu.PC = (w.cpu.PC + 1) % W16], w.cpu.PC, in)

\* Faulty variant: the low byte held on AB is dropped
HighOnAB_LowLost(w, pa, in) ==
    (load_val(w, pa, in) * 256) % W16

\* ((mos_pa_t)load_word(cpu, pa) << 8) | cpu->AB
HighOnAB(w, pa, in) ==
    BitOr((load_val(w, pa, in) * 256) % W16, w.cpu.AB)

\* Faulty variant: the sum of operand and index carries into page 1
AmZeroIndexed_Carries(w, in, index) ==
    CASE w.cpu.instr.cycle = 0 ->
            [LoadAtPC(w, in) EXCEPT !.cpu.DB = load_val(w, w.cpu.PC, in)]
      [] w.cpu.instr.cycle = 1 ->
            latch_address(w, w.cpu.DB + index)
      [] OTHER -> ep_abort(w)

\* MOS_AM_ZX / MOS_AM_ZY, index being cpu->X or cpu->Y
AmZeroIndexed(w, in, index) ==
    CASE w.cpu.instr.cycle = 0 ->
            [LoadAtPC(w, in) EXCEPT !.cpu.DB = load_val(w, w.cpu.PC, in)]
      [] w.cpu.instr.cycle = 1 ->
            latch_address(w, BitAnd(w.cpu.DB + index, 255))
      [] OTHER -> ep_abort(w)

\* the delay cycle shared by MOS_AM_ABSX, MOS_AM_ABSY and MOS_AM_INDY: AB
\* holds the base; stall first or latch AB + index
StallOrLatch(w, index) ==
    LET s  == instr_should_stall(w.cpu.instr, w.cpu.AB, index)
        w1 == [w EXCEPT !.cpu.instr = s.instr]
    IN  IF s.stall THEN w1 ELSE latch_address(w1, w1.cpu.AB + index)

\* MOS_AM_ABSX / MOS_AM_ABSY
AmAbsIndexed(w, in, index) ==
    CASE w.cpu.instr.cycle = 0 ->
            [LoadAtPC(w, in) EXCEPT !.cpu.AB = load_val(w, w.cpu.PC, in)]
      [] w.cpu.instr.cycle = 1 ->
            StallOrLatch([LoadAtPC(w, in) EXCEPT
                            !.cpu.AB = HighOnAB(w, w.cpu.PC, in)], index)
      [] w.cpu.instr.cycle = 2 ->
            latch_address(w, w.cpu.AB + index)
      [] OTHER -> ep_abort(w)

\* the world after addr_mode_exec
AmWorld(w, in) ==
    LET c == w.cpu
        m == c.instr.mode
    IN  CASE m = "IMP" ->
                IF c.instr.cycle # 0 THEN ep_abort(w)
                ELSE [w EXCEPT !.cpu.instr.address_latched = TRUE]
          [] m = "IMM" ->
                IF c.instr.cycle # 0 THEN ep_abort(w)
                ELSE latch_address([w EXCEPT !.cpu.PC = (c.PC + 1) % W16], c.PC)
          [] m = "Z" ->
                IF c.instr.cycle # 0 THEN ep_abort(w)
                ELSE latch_address(LoadAtPC(w, in), load_val(w, c.PC, in))
          [] m = "ZX" -> AmZeroIndexed(w, in, c.X)
          [] m = "ZY" -> AmZeroIndexed(w, in, c.Y)
          [] m = "ABS" ->
                CASE c.instr.cycle = 0 ->
                        [LoadAtPC(w, in) EXCEPT !.cpu.AB = load_val(w, c.PC, in)]
                  [] c.instr.cycle = 1 ->
                        latch_address(LoadAtPC(w, in), HighOnAB(w, c.PC, in))
                  [] OTHER -> ep_abort(w)
          [] m = "ABSX" -> AmAbsIndexed(w, in, c.X)
          [] m = "ABSY" -> AmAbsIndexed(w, in, c.Y)
          [] m = "INDX" ->
                CASE c.instr.cycle = 0 ->
                        [LoadAtPC(w, in) EXCEPT !.cpu.DB = load_val(w, c.PC, in)]
                  [] c.instr.cycle = 1 ->
                        [w EXCEPT !.cpu.DB = (c.DB + c.X) % W8]
                  [] c.instr.cycle = 2 ->
                        [load_word(w, c.DB, in) EXCEPT
                            !.cpu.AB = load_val(w, c.DB, in),
                            !.cpu.DB = (c.DB + 1) % W8]
                  [] c.instr.cycle = 3 ->
                        latch_address(load_word(w, c.DB, in), HighOnAB(w, c.DB, in))
                  [] OTHER -> ep_abort(w)
          [] m = "INDY" ->
                CASE c.instr.cycle = 0 ->
                        [LoadAtPC(w, in) EXCEPT !.cpu.DB = load_val(w, c.PC, in)]
                  [] c.instr.cycle = 1 ->
                        [load_word(w, c.DB, in) EXCEPT
                            !.cpu.AB = load_val(w, c.DB, in),
                            !.cpu.DB = (c.DB + 1) % W8]
                  [] c.instr.cycle = 2 ->
                        StallOrLatch([load_word(w, c.DB, in) EXCEPT
                                        !.cpu.AB = HighOnAB(w, c.DB, in)], c.Y)
                  [] c.instr.cycle = 3 ->
                        latch_address(w, c.AB + c.Y)
                  [] OTHER -> ep_abort(w)
          [] OTHER -> ep_abort(w)

\* [w, immediate]: the world after the addressing-mode step and its return
\* value (true for IMP and IMM, which do not consume the cycle)
addr_mode_exec(w, in) ==
    [w |-> AmWorld(w, in), immediate |-> w.cpu.instr.mode \in {"IMP", "IMM"}]

(* ------------------------------------------------------------------ *)
(* Micro-op executor                                                   *)
(* ------------------------------------------------------------------ *)

Carry(P) == IF BitAnd(P, SR_C) # 0 THEN 1 ELSE 0

\* the value a shift or rotate uop leaves in its operand v
ShiftVal(uop, v, P) ==
    CASE uop = "ASL" -> (v * 2) % W8
      [] uop = "LSR" -> v \div 2
      [] uop = "ROL" -> BitOr(v * 2, Carry(P)) % W8
      [] uop = "ROR" -> BitOr(v \div 2, Carry(P) * 128) % W8

\* the flags a shift or rotate uop leaves: C from the bit shifted out, then
\* set_value_flags of the result
ShiftFlags(uop, v, P) ==
    LET out == IF uop \in {"ASL", "ROL"} THEN BitAnd(v, 128) ELSE BitAnd(v, 1)
    IN  set_value_flags(change_flags(P, SR_C, IF out # 0 THEN SR_C ELSE 0),
                        ShiftVal(uop, v, P))

\* Faulty variant: the load uop reads M[AB] a second time in the same tick
UopLoad_ReadsTwice(w, in, reg) ==
    IF ~w.cpu.instr.address_latched THEN ep_abort(w)
    ELSE LET v  == load_val(w, w.cpu.AB, in)
             w1 == load_word(load_word(w, w.cpu.AB, in), w.cpu.AB, in)
         IN  [w1 EXCEPT !.cpu[reg] = v, !.cpu.P = set_value_flags(@, v)]

\* a load uop: reg <- load_word(AB), set_value_flags(reg)
UopLoad(w, in, reg) ==
    IF ~w.cpu.instr.address_latched THEN ep_abort(w)
    ELSE LET v  == load_val(w, w.cpu.AB, in)
             w1 == load_word(w, w.cpu.AB, in)
         IN  [w1 EXCEPT !.cpu[reg] = v, !.cpu.P = set_value_flags(@, v)]

\* Faulty variant: a store goes through the push path and moves SP
UopStore_MovesSP(w, val) ==
    IF ~w.cpu.instr.address_latched THEN ep_abort(w)
    ELSE [store_word(w, w.cpu.AB, val) EXCEPT !.cpu.SP = (w.cpu.SP + W8 - 1) % W8]

UopStore(w, val) ==
    IF ~w.cpu.instr.address_latched THEN ep_abort(w)
    ELSE store_word(w, w.cpu.AB, val)

\* a register uop: reg <- val, set_value_flags(val)
UopSetReg(w, reg, val) ==
    [w EXCEPT !.cpu[reg] = val, !.cpu.P = set_value_flags(@, val)]

\* AND / EOR / ORA: A <- f(A, load_word(AB)), set_value_flags(A)
UopLogic(w, in, res) ==
    IF ~w.cpu.instr.address_latched THEN ep_abort(w)
    ELSE UopSetReg(load_word(w, w.cpu.AB, in), "A", res)

\* Faulty variant: the push goes to page 0 instead of page 1
UopPush_ZeroPage(w, val) ==
    CASE w.cpu.instr.cycle = 0 ->
            [w EXCEPT !.cpu.AB = w.cpu.SP]
      [] w.cpu.instr.cycle = 1 ->
            [store_word(w, w.cpu.AB, val) EXCEPT !.cpu.SP = (w.cpu.SP + W8 - 1) % W8]
      [] OTHER -> ep_abort(w)

\* Faulty variant: the push does not wrap SP from 0x00 to 0xFF
UopPush_NoWrap(w, val) ==
    CASE w.cpu.instr.cycle = 0 ->
            [w EXCEPT !.cpu.AB = BitOr(256, w.cpu.SP)]
      [] w.cpu.instr.cycle = 1 ->
            [store_word(w, w.cpu.AB, val) EXCEPT
                !.cpu.SP = IF w.cpu.SP = 0 THEN 0 ELSE w.cpu.SP - 1]
      [] OTHER -> ep_abort(w)

\* PHA / PHP
UopPush(w, val) ==
    CASE w.cpu.instr.cycle = 0 ->
            [w EXCEPT !.cpu.AB = BitOr(256, w.cpu.SP)]
      [] w.cpu.instr.cycle = 1 ->
            [store_word(w, w.cpu.AB, val) EXCEPT !.cpu.SP = (w.cpu.SP + W8 - 1) % W8]
      [] OTHER -> ep_abort(w)

\* Faulty variant: PLP takes all eight bits of P from the stack
UopPull_WholeByte(w, in, isP) ==
    CASE w.cpu.instr.cycle = 0 ->
            [w EXCEPT !.cpu.SP = (w.cpu.SP + 1) % W8]
      [] w.cpu.instr.cycle = 1 ->
            [w EXCEPT !.cpu.AB = BitOr(256, w.cpu.SP)]
      [] w.cpu.instr.cycle = 2 ->
            LET v  == load_val(w, w.cpu.AB, in)
                w1 == load_word(w, w.cpu.AB, in)
            IN  IF isP THEN [w1 EXCEPT !.cpu.P = v]
                ELSE [w1 EXCEPT !.cpu.A = v, !.cpu.P = set_value_flags(@, v)]
      [] OTHER -> ep_abort(w)

\* PLA / PLP; isP tells which register the pulled byte goes to
UopPull(w, in, isP) ==
    CASE w.cpu.instr.cycle = 0 ->
            [w EXCEPT !.cpu.SP = (w.cpu.SP + 1) % W8]
      [] w.cpu.instr.cycle = 1 ->
            [w EXCEPT !.cpu.AB = BitOr(256, w.cpu.SP)]
      [] w.cpu.instr.cycle = 2 ->
            LET v  == load_val(w, w.cpu.AB, in)
                w1 == load_word(w, w.cpu.AB, in)
            IN  IF isP
                THEN [w1 EXCEPT !.cpu.P =
                        BitOr(BitAnd(w.cpu.P, SR_B + SR_U),
                              BitAnd(v, BitNot(SR_B + SR_U))) % W8]
                ELSE UopSetReg(w1, "A", v)
      [] OTHER -> ep_abort(w)

\* Faulty variant: the modify sub-cycle first writes the unmodified byte back,
\* as the hardware does
UopRmw_WritesUnmodified(w, in) ==
    LET c   == w.cpu
        uop == c.instr.uop
        sub == c.instr.ncycles - c.instr.cycle - 1
    IN  IF ~c.instr.address_latched THEN ep_abort(w)
        ELSE CASE sub = 3 ->
                    [load_word(w, c.AB, in) EXCEPT !.cpu.DB = load_val(w, c.AB, in)]
               [] sub = 2 ->
                    IF uop = "DEC"
                    THEN [store_word(w, c.AB, c.DB) EXCEPT !.cpu.DB = (c.DB + W8 - 1) % W8]
                    ELSE IF uop = "INC"
                    THEN [store_word(w, c.AB, c.DB) EXCEPT !.cpu.DB = (c.DB + 1) % W8]
                    ELSE [store_word(w, c.AB, c.DB) EXCEPT
                            !.cpu.DB = ShiftVal(uop, c.DB, c.P),
                            !.cpu.P = ShiftFlags(uop, c.DB, c.P)]
               [] sub = 1 ->
                    IF uop \in {"DEC", "INC"}
                    THEN [store_word(w, c.AB, c.DB) EXCEPT
                            !.cpu.P = set_value_flags(@, c.DB)]
                    ELSE store_word(w, c.AB, c.DB)
               [] OTHER -> ep_abort(w)

\* the three terminal sub-cycles of a memory read-modify-write uop, selected
\* by ncycles - cycle - 1
UopRmw(w, in) ==
    LET c   == w.cpu
        uop == c.instr.uop
        sub == c.instr.ncycles - c.instr.cycle - 1
    IN  IF ~c.instr.address_latched THEN ep_abort(w)
        ELSE CASE sub = 3 ->
                    [load_word(w, c.AB, in) EXCEPT !.cpu.DB = load_val(w, c.AB, in)]
               [] sub = 2 ->
                    IF uop = "DEC" THEN [w EXCEPT !.cpu.DB = (c.DB + W8 - 1) % W8]
                    ELSE IF uop = "INC" THEN [w EXCEPT !.cpu.DB = (c.DB + 1) % W8]
                    ELSE [w EXCEPT !.cpu.DB = ShiftVal(uop, c.DB, c.P),
                                   !.cpu.P = ShiftFlags(uop, c.DB, c.P)]
               [] sub = 1 ->
                    IF uop \in {"DEC", "INC"}
                    THEN [store_word(w, c.AB, c.DB) EXCEPT
                            !.cpu.P = set_value_flags(@, c.DB)]
                    ELSE store_word(w, c.AB, c.DB)
               [] OTHER -> ep_abort(w)

\* the world after uop_exec
\* Faulty variant: CLD and SED clear and set D
UopDecimal_ChangesD(w) ==
    [w EXCEPT !.cpu.P = change_flags(@, SR_D,
                                     IF w.cpu.instr.uop = "SED" THEN SR_D ELSE 0)]

\* CLD / SED: decimal mode is not supported
UopDecimal(w) == ep_abort(w)

uop_exec(w, in) ==
    LET c   == w.cpu
        uop == c.instr.uop
        m   == load_val(w, c.AB, in)
    IN  IF c.halted THEN ep_abort(w)
        ELSE
        CASE uop = "NOP" -> w
          [] uop = "HLT" -> [w EXCEPT !.cpu.halted = TRUE]
          [] uop = "LDA" -> UopLoad(w, in, "A")
          [] uop = "LDX" -> UopLoad(w, in, "X")
          [] uop = "LDY" -> UopLoad(w, in, "Y")
          [] uop = "STA" -> UopStore(w, c.A)
          [] uop = "STX" -> UopStore(w, c.X)
          [] uop = "STY" -> UopStore(w, c.Y)
          [] uop = "TAX" -> UopSetReg(w, "X", c.A)
          [] uop = "TAY" -> UopSetReg(w, "Y", c.A)
          [] uop = "TSX" -> UopSetReg(w, "X", c.SP)
          [] uop = "TXA" -> UopSetReg(w, "A", c.X)
          [] uop = "TXS" -> UopSetReg(w, "SP", c.X)
          [] uop = "TYA" -> UopSetReg(w, "A", c.Y)
          [] uop = "PHA" -> UopPush(w, c.A)
          [] uop = "PLA" -> UopPull(w, in, FALSE)
          [] uop = "PHP" -> UopPush(w, BitOr(c.P, SR_B + SR_U))
          [] uop = "PLP" -> UopPull(w, in, TRUE)
          [] uop \in {"DEC", "INC"} -> UopRmw(w, in)
          [] uop = "DEX" -> UopSetReg(w, "X", (c.X + W8 - 1) % W8)
          [] uop = "INX" -> UopSetReg(w, "X", (c.X + 1) % W8)
          [] uop = "DEY" -> UopSetReg(w, "Y", (c.Y + W8 - 1) % W8)
          [] uop = "INY" -> UopSetReg(w, "Y", (c.Y + 1) % W8)
          [] uop = "ADC" ->
                IF ~c.instr.address_latched THEN ep_abort(w)
                ELSE [load_word(w, c.AB, in) EXCEPT !.cpu = exec_addc(@, m)]
          [] uop = "SBC" ->
                IF ~c.instr.address_latched THEN ep_abort(w)
                ELSE [load_word(w, c.AB, in) EXCEPT
                        !.cpu = exec_addc(@, BitNot(m) % W8)]
          [] uop = "AND" -> UopLogic(w, in, BitAnd(c.A, m))
          [] uop = "EOR" -> UopLogic(w, in, BitXor(c.A, m))
          [] uop = "ORA" -> UopLogic(w, in, BitOr(c.A, m))
          [] uop \in {"ASL", "LSR", "ROL", "ROR"} ->
                IF c.instr.mode = "IMP"
                THEN [w EXCEPT !.cpu.A = ShiftVal(uop, c.A, c.P),
                               !.cpu.P = ShiftFlags(uop, c.A, c.P)]
                ELSE UopRmw(w, in)
          [] uop = "CLC" -> [w EXCEPT !.cpu.P = BitAnd(@, BitNot(SR_C)) % W8]
          [] uop = "CLD" -> UopDecimal(w)
          [] uop = "CLI" -> [w EXCEPT !.cpu.P = BitAnd(@, BitNot(SR_I)) % W8]
          [] uop = "CLV" -> [w EXCEPT !.cpu.P = BitAnd(@, BitNot(SR_V)) % W8]
          [] uop = "SEC" -> [w EXCEPT !.cpu.P = BitOr(@, SR_C)]
          [] uop = "SED" -> UopDecimal(w)
          [] uop = "SEI" -> [w EXCEPT !.cpu.P = BitOr(@, SR_I)]
          [] OTHER -> ep_abort(w)

(* ------------------------------------------------------------------ *)
(* Address map, lifecycle and control loop                             *)
(* ------------------------------------------------------------------ *)

\* sizeof(cpu->pa_map) / sizeof(cpu->pa_map[0])
MaxRegions == 8

InsertAt(seq, i, r) ==
    SubSeq(seq, 1, i - 1) \o <<r>> \o SubSeq(seq, i, Len(seq))

\* the loop of insert_pa_range from index i (from 1) on: [ok, cpu], ok being
\* false when an ep_verify fails
RECURSIVE InsertScan(_, _, _)
InsertScan(cpu, range, i) ==
    IF i > cpu.nregions
    THEN [ok |-> TRUE,
          cpu |-> [cpu EXCEPT !.pa_map = Append(@, range), !.nregions = @ + 1]]
    ELSE LET r == cpu.pa_map[i]
         IN  IF r.base > range.base
             THEN IF U32Less(U32Add(U32(range.base), U32Dec(range.size)),
                             U32(r.base))
                  THEN [ok |-> TRUE,
                        cpu |-> [cpu EXCEPT !.pa_map = InsertAt(@, i, range),
                                            !.nregions = @ + 1]]
                  ELSE [ok |-> FALSE, cpu |-> cpu]
             ELSE IF U32Less(U32Add(U32(r.base), U32Dec(r.size)),
                             U32(range.base))
                  THEN InsertScan(cpu, range, i + 1)
                  ELSE [ok |-> FALSE, cpu |-> cpu]

insert_pa_range(w, range) ==
    IF ~(w.cpu.nregions < MaxRegions) THEN ep_abort(w)
    ELSE LET c == InsertScan(w.cpu, range, 1)
         IN  IF ~c.ok THEN ep_abort(w) ELSE [w EXCEPT !.cpu = c.cpu]

\* mapped is the host buffer handed in, "NULL" for a null pointer
mos6502_map_ram_region(w, base, size, mapped) ==
    IF mapped = "NULL" THEN ep_abort(w)
    ELSE IF size = U32(0) THEN ep_abort(w)
    ELSE IF ~U32LessEq(U32(BitAnd(BitNot(base), 65535)), U32Dec(size))
         THEN ep_abort(w)
    ELSE insert_pa_range(w, [base |-> base, size |-> size,
                             is_ram |-> TRUE, mapped |-> mapped])

\* map_mmio_region of the documented API, which 2a0x.c does not define: as
\* documented, a non-null handler, a size of at least 1 and
\* base + size - 1 <= 0xFFFF, then the region is inserted in sorted order,
\* with is_ram false and the handler in the union
mos6502_map_mmio_region(w, base, size, handler) ==
    IF handler = "NULL" THEN ep_abort(w)
    ELSE IF size = U32(0) THEN ep_abort(w)
    ELSE IF ~(\/ size[1] = 0 /\ base + size[2] - 1 < W16
              \/ size = U32(W16) /\ base = 0)
         THEN ep_abort(w)
    ELSE insert_pa_range(w, [base |-> base, size |-> size,
                             is_ram |-> FALSE, mapped |-> handler])

\* Faulty variant: the bypass store counts a bus cycle
mos6502_store_word_CountsCycle(w, addr, val) ==
    [store_word(w, addr, val) EXCEPT !.cpu.cycle = @ + 1]

\* ep_verify(cpu); return load_word(cpu, addr);
mos6502_load_word(w, addr, in) == load_word(w, addr, in)

\* ep_verify(cpu); return store_word(cpu, addr, val);
mos6502_store_word(w, addr, val) == store_word(w, addr, val)

\* memset(cpu, 0, sizeof(*cpu))
mos6502_init ==
    [PC |-> 0, AB |-> 0, A |-> 0, X |-> 0, Y |-> 0, P |-> 0, SP |-> 0, DB |-> 0,
     halted |-> FALSE, instr |-> ZeroInstr, cycle |-> 0, total_retired |-> 0,
     nregions |-> 0, pa_map |-> <<>>]

\* Faulty variant: reset clears the registers as init does
mos6502_reset_ClearsRegs(w, hi, lo, in, oob) ==
    LET w1 == load_word(w, 65533, hi)
        w2 == load_word(w1, 65532, lo)
        pc == BitOr((load_val(w, 65533, hi) * 256) % W16, load_val(w1, 65532, lo))
        w3 == [w2 EXCEPT !.cpu.PC = pc, !.cpu.SP = 253, !.cpu.P = SR_I + SR_U,
                         !.cpu.halted = FALSE, !.cpu.cycle = 8,
                         !.cpu.total_retired = 0,
                         !.cpu.A = 0, !.cpu.X = 0, !.cpu.Y = 0]
    IN  IF w2.aborted THEN w2 ELSE fetch_next_instr(w3, in, oob)

\* hi and lo are the unseen bytes at 0xFFFD and 0xFFFC, in the unseen byte at
\* the vector target.  The two loads of the vector are operands of one |, so
\* their order is the compiler's choice; with RAM behind them it cannot be
\* observed
mos6502_reset(w, hi, lo, in, oob) ==
    LET w1 == load_word(w, 65533, hi)
        w2 == load_word(w1, 65532, lo)
        pc == BitOr((load_val(w, 65533, hi) * 256) % W16, load_val(w1, 65532, lo))
        w3 == [w2 EXCEPT !.cpu.PC = pc, !.cpu.SP = 253, !.cpu.P = SR_I + SR_U,
                         !.cpu.halted = FALSE, !.cpu.cycle = 8,
                         !.cpu.total_retired = 0]
    IN  IF w2.aborted THEN w2 ELSE fetch_next_instr(w3, in, oob)

\* Faulty variant: the retiring path skips cpu->cycle++
CycleDone_NoCycleOnRetire(w, ret) ==
    [w EXCEPT !.cpu.total_retired = IF ret THEN @ + 1 ELSE @,
              !.cpu.cycle = IF ret THEN @ ELSE @ + 1,
              !.cpu.instr.cycle = IF ret THEN @ ELSE (@ + 1) % W8,
              !.retired = ret]

\* Faulty variant: a halting tick jumps to cycle_done instead of retire, but
\* still reports the retirement
CycleDone_HaltNotCounted(w, ret) ==
    [w EXCEPT !.cpu.total_retired = IF ret /\ ~w.cpu.halted THEN @ + 1 ELSE @,
              !.cpu.cycle = @ + 1,
              !.cpu.instr.cycle = IF ret THEN @ ELSE (@ + 1) % W8,
              !.retired = ret]

\* the labels retire: and cycle_done: of mos6502_tick
CycleDone(w, ret) ==
    [w EXCEPT !.cpu.total_retired = IF ret THEN @ + 1 ELSE @,
              !.cpu.cycle = @ + 1,
              !.cpu.instr.cycle = IF ret THEN @ ELSE (@ + 1) % W8,
              !.retired = ret]

\* Faulty variant: the halted test comes after the cycle is counted
mos6502_tick_HaltedCounts(w, in, oob) ==
    IF w.cpu.halted THEN [w EXCEPT !.retired = FALSE, !.cpu.cycle = @ + 1]
    ELSE LET am == IF ~w.cpu.instr.address_latched
                   THEN addr_mode_exec(w, in)
                   ELSE [w |-> w, immediate |-> TRUE]
             w1 == am.w
         IN  IF w1.aborted THEN w1
             ELSE IF ~am.immediate THEN CycleDone(w1, FALSE)
             ELSE IF ~w1.cpu.instr.address_latched THEN ep_abort(w1)
             ELSE IF ~instr_is_tplus(w1.cpu.instr)
             THEN LET w2 == uop_exec(w1, in)
                  IN  IF w2.aborted THEN w2
                      ELSE CycleDone(w2, w2.cpu.halted)
             ELSE CycleDone(fetch_next_instr(w1, in, oob), TRUE)

mos6502_tick(w, in, oob) ==
    IF w.cpu.halted THEN [w EXCEPT !.retired = FALSE]
    ELSE LET am == IF ~w.cpu.instr.address_latched
                   THEN addr_mode_exec(w, in)
                   ELSE [w |-> w, immediate |-> TRUE]
             w1 == am.w
         IN  IF w1.aborted THEN w1
             ELSE IF ~am.immediate THEN CycleDone(w1, FALSE)
             ELSE IF ~w1.cpu.instr.address_latched THEN ep_abort(w1)
             ELSE IF ~instr_is_tplus(w1.cpu.instr)
             THEN LET w2 == uop_exec(w1, in)
                  IN  IF w2.aborted THEN w2
                      ELSE CycleDone(w2, w2.cpu.halted)
             ELSE CycleDone(fetch_next_instr(w1, in, oob), TRUE)

mos6502_is_halted(cpu) == cpu.halted

\* the uops that move SP
StackUops == {"PHA", "PLA", "PHP", "PLP", "TXS"}

\* the uops that may write memory
WriteUops == {"STA", "STX", "STY", "INC", "DEC", "ASL", "LSR", "ROL", "ROR"}

(* ------------------------------------------------------------------ *)
(* State                                                               *)
(* ------------------------------------------------------------------ *)
VARIABLES
    cpu,        \* struct mos6502_cpu
    ram,        \* the bytes of the host's backing arrays seen so far
    aborted,    \* _ep_abort has ended the process
    call,       \* the operation called last
    retired,    \* what the last mos6502_tick returned
    bus,        \* the bus accesses of the last call
    opcode,     \* the opcode byte instr was decoded from, -1 before a fetch
    nticks,     \* calls of tick spent on the current instruction so far
    done,       \* <<opcode, ticks>> of the instruction the last true tick retired
    ntrue,      \* ticks that returned true since the last reset
    nfetch,     \* opcodes fetched since the last reset
    nresets,    \* resets since init
    clean,      \* every opcode fetched since the last reset is a supported one
    shape,      \* the family of programs the host has loaded (see Shapes)
    pushed,     \* the registers at the fetch of the last PHA or PHP (see NotePush)
    arg,        \* <<addr>> or <<addr, val>> of the last bypass accessor call
    naccess     \* bypass accessor calls so far

vars == <<cpu, ram, aborted, call, retired, bus, opcode, nticks, done, ntrue,
          nfetch, nresets, clean, shape, pushed, arg, naccess>>

(* ------------------------------------------------------------------ *)
(* Inputs: what the host put into RAM and passes to the API            *)
(* ------------------------------------------------------------------ *)

\* data and operand bytes of unseen RAM
Bytes == {0, 128, 255}

\* reset vectors the host may have stored at 0xFFFC/0xFFFD
ResetVectors == {0, 65535}

\* arguments of mos6502_map_ram_region: <<base, size, mapped>>
MapInputs ==
    {<<0, U32(65536), "ram">>, <<32768, U32(32768), "ram">>,
     <<0, U32(2048), "ram">>, <<0, U32(65536), "NULL">>, <<0, U32(0), "ram">>}

\* the size 0xFFFFFFFF
MaxSize == <<W16 - 1, W16 - 1>>

\* arguments of a host that only builds an address map: the NES layout
\* (2 KiB of work RAM at 0x0000, 32 KiB of cartridge space at 0x8000), single
\* bytes, ranges that run past 0xFFFF, a null buffer and an empty range
WideMapInputs ==
    {<<0, U32(2048), "ram">>, <<32768, U32(32768), "prg">>,
     <<2048, U32(2048), "ram2">>, <<65535, U32(1), "top">>,
     <<0, U32(65536), "ram">>, <<32768, U32(65536), "prg">>,
     <<2, MaxSize, "ram">>, <<3, MaxSize, "ram2">>,
     <<0, U32(2048), "NULL">>, <<0, U32(0), "ram">>}

\* opcode bytes outside the decode table's initialisers: 0x00 lies inside the
\* array, 0xFF one element behind it
UnsupportedSamples == {0, 255}

\* records the build may hold behind the end of mos_opcodes: zeroes, or any
\* other bytes read as a struct mos6502_instr
OobInstrs ==
    {ZeroInstr} \cup
    [uop : {"LDA", "HLT", "INVALID"}, mode : {"IMP", "Z"},
     cycle : {0, 1}, ncycles : {2}, address_latched : BOOLEAN,
     xpage_stall : {FALSE}, always_stall : {FALSE}]

\* A shape is a sequence of opcode sets: the k-th opcode a program fetches
\* from unseen RAM is drawn from the k-th set, and from the last set beyond.
\* LDX #, LDY #, LDA #, PLP, TXS set up the registers
SetupOpcodes == {162, 160, 169, 40, 154}
HltOpcodes == {2, 18, 34, 50, 66, 82, 98, 114, 146, 178, 210, 242}
MainShape == <<SetupOpcodes, SupportedOpcodes \cup UnsupportedSamples, {2}>>

\* LDA #, LDX #, STA abs, INC abs, PHA, KIL or the byte behind the table,
\* then PHA or KIL
AnyOrderShape == <<{169, 162, 141, 238, 72, 2, 255}, {72, 2}, {2}>>

\* LDA #, then CLC or SEC, then ADC # or SBC #, then KIL
AddcShape == <<{169}, {24, 56}, {105, 233}, {2}>>

\* the instructions that end in set_value_flags, in their implied and
\* immediate forms: TAX TAY TSX TXA TYA, INX DEX INY DEY, AND EOR ORA, PLA
FlagOps == {170, 168, 186, 138, 152, 232, 202, 200, 136, 41, 73, 9, 104}

\* PLP, then LDA #, LDX # or LDY #, then one of FlagOps, then KIL
FlagsShape == <<{40}, {169, 162, 160}, FlagOps, {2}>>

\* LDX #, TXS, then LDA # or PLP, then PHA or PHP, then LDA # or SEC, then
\* PLA or PLP, then KIL
StackShape == <<{162}, {154}, {169, 40}, {72, 8}, {169, 56}, {104, 40}, {2}>>

\* the instructions of the three modes with a delay cycle: LDA abs,X, LDA
\* abs,Y and LDA (zp),Y have xpage_stall; STA abs,X, STA abs,Y, STA (zp),Y and
\* INC abs,X have always_stall
PageOps == {189, 185, 177, 157, 153, 145, 254}

\* instructions of the zero-page indexed modes: LDA zp,X, LDX zp,Y, STA zp,X,
\* STX zp,Y, INC zp,X
ZeroOps == {181, 182, 149, 150, 246}

\* LDX #, LDY #, one of PageOps or ZeroOps, then KIL
PageShape == <<{162}, {160}, PageOps \cup ZeroOps, {2}>>

\* LDA abs or STA abs, then KIL
BusShape == <<{173, 141}, {2}>>

\* LDX #, then NOP, PHA, LDA abs,X, LDA (zp,X), INC abs,X, SED or a byte
\* without a table entry, then KIL
LiveShape == <<{162}, {234, 72, 189, 161, 254, 248, 0}, {2}>>

\* a host that maps regions and never runs a program has the shape "map"
Shapes ==
    [main |-> MainShape, any |-> AnyOrderShape, addc |-> AddcShape,
     map |-> <<{2}>>, flags |-> FlagsShape, stack |-> StackShape,
     page |-> PageShape, bus |-> BusShape, live |-> LiveShape]

ShapeAt(k) ==
    LET sh == Shapes[shape] IN sh[IF k < Len(sh) THEN k ELSE Len(sh)]

\* the shapes whose host maps all 64 KiB as RAM and resets to 0x0000, as
\* init_test_cpu does
TestShapes == {"flags", "stack", "page", "live"}

\* arguments of a host that inspects memory through the bypass accessors:
\* RAM over all 64 KiB, over the upper half, and a range that runs past
\* 0xFFFF
BusMapInputs ==
    {<<0, U32(65536), "ram">>, <<32768, U32(32768), "prg">>,
     <<2, MaxSize, "ram">>}

\* arguments of mos6502_map_mmio_region: <<base, size, handler>>, eight
\* registers at 0x0080, a mapper over the upper half, a null handler
MmioInputs ==
    {<<128, U32(8), "io">>, <<32768, U32(32768), "mapper">>,
     <<128, U32(8), "NULL">>}

\* the addresses and bytes the host passes to the bypass accessors
BusAddrs == {5, 135, 32769}
StoreBytes == {7}

\* bytes of unseen RAM, and bytes a handler returns, under that host
BusBytes == {0, 128}

\* the arguments the host of the shape passes to mos6502_map_ram_region
MapArgs ==
    IF shape = "map" THEN WideMapInputs
    ELSE IF shape = "bus" THEN BusMapInputs
    ELSE IF shape \in TestShapes THEN {<<0, U32(65536), "ram">>}
    ELSE MapInputs

\* the reset vectors the host of the shape stores
HostVectors ==
    IF shape \in TestShapes THEN {0}
    ELSE IF shape = "bus" THEN {0, 32768}
    ELSE ResetVectors

\* status bytes on the stack: every combination of V, D and I, with C, N, Z,
\* B and U set in some and clear in others
StatusBytes ==
    {SR_V * v + SR_D * d + SR_I * i + SR_C * ((v + d + i) % 2)
       + (IF d = 1 THEN SR_N + SR_U + SR_B + SR_Z ELSE 0) :
     v \in {0, 1}, d \in {0, 1}, i \in {0, 1}}

\* bytes at both ends and in the middle of a page
EdgeBytes == {0, 1, 127, 128, 254, 255}

\* The bytes the third instruction of a program of PageShape reads: the
\* pointer operand of the (zp),Y mode, then the low byte of the base or the
\* zero-page operand (every byte when the index is one of EdgeBytes, one of
\* EdgeBytes for every other index), the high byte of the base, and the data
\* at the effective address
PageData ==
    LET i    == cpu.instr
        step == IF i.mode = "INDY" THEN i.cycle - 1 ELSE i.cycle
    IN  IF step < 0 THEN {128}
        ELSE IF step = 0 THEN (IF cpu.X \in EdgeBytes THEN 0 .. 255 ELSE EdgeBytes)
        ELSE IF step = 1 /\ ~i.address_latched THEN {2, 255}
        ELSE {0}

\* The data and operand bytes a program of the shape finds in unseen RAM, by
\* the position of the instruction that reads them (the last set beyond):
\* the arithmetic programs run over every byte
DataShapes ==
    [main  |-> <<Bytes>>, any |-> <<Bytes>>, addc |-> <<0 .. 255>>,
     map   |-> <<Bytes>>,
     flags |-> <<StatusBytes, 0 .. 255, Bytes>>,
     stack |-> <<0 .. 255, Bytes, StatusBytes \cup {1, 127, 128}, Bytes, {0}>>,
     page  |-> <<0 .. 255, {cpu.X}, PageData, Bytes>>,
     bus   |-> <<BusBytes>>,
     live  |-> <<{255}, {1, 255}>>]

DataBytes ==
    LET d == DataShapes[shape] IN d[IF nfetch < Len(d) THEN nfetch ELSE Len(d)]

(* ------------------------------------------------------------------ *)
(* Operations                                                          *)
(* ------------------------------------------------------------------ *)

\* ticks one instruction may take before the model stops ticking it
MaxTicks == 8

\* resets the host may call when it calls the API in any order
MaxResets == 2

\* bypass accessor calls the host may make
MaxAccess == 2

World == [cpu |-> cpu, ram |-> ram, aborted |-> FALSE, bus |-> <<>>,
          retired |-> FALSE]

\* the process is gone: nothing of its state is observable any more
Crash(op) ==
    /\ aborted' = TRUE
    /\ call' = op
    /\ UNCHANGED <<cpu, ram, retired, bus, opcode, nticks, done, ntrue, nfetch,
                   nresets, clean, shape, pushed, arg, naccess>>

\* no PHA or PHP has been fetched since the last reset
NoPush == [op |-> "", A |-> 0, P |-> 0, SP |-> 0, later |-> 0]

\* The record of the last push after a tick or reset that left the registers
\* c: a fetched PHA or PHP starts a new record of A, P and SP; any other
\* fetched instruction that moves SP or may write memory is counted in later
NotePush(p, fetched, c) ==
    IF ~fetched THEN p
    ELSE IF c.instr.uop \in {"PHA", "PHP"}
    THEN [op |-> c.instr.uop, A |-> c.A, P |-> c.P, SP |-> c.SP, later |-> 0]
    ELSE IF p.op # "" /\ c.instr.uop \in StackUops \cup WriteUops
    THEN [p EXCEPT !.later = IF @ < 2 THEN @ + 1 ELSE 2]
    ELSE p

\* the byte the last load of a call brought in
LastByte(w) == w.bus[Len(w.bus)][3]

\* the state mos6502_init leaves, nothing of the host's RAM seen yet
Created ==
    /\ cpu = mos6502_init
    /\ ram = <<>>
    /\ aborted = FALSE
    /\ call = "init"
    /\ retired = FALSE
    /\ bus = <<>>
    /\ opcode = -1
    /\ nticks = 0
    /\ done = <<-1, 0>>
    /\ ntrue = 0
    /\ nfetch = 0
    /\ nresets = 0
    /\ clean = TRUE
    /\ pushed = NoPush
    /\ arg = <<>>
    /\ naccess = 0

Init == Created /\ shape = "main"

MapRamRegion ==
    /\ ~aborted
    /\ \E a \in MapArgs :
          LET r == mos6502_map_ram_region(World, a[1], a[2], a[3])
          IN  IF r.aborted THEN Crash("map_ram_region")
              ELSE /\ cpu' = r.cpu
                   /\ call' = "map_ram_region"
                   /\ bus' = r.bus
                   /\ UNCHANGED <<ram, aborted, retired, opcode, nticks, done,
                                  ntrue, nfetch, nresets, clean, shape, pushed,
                                  arg, naccess>>

\* the model has seen the byte RAM holds at pa
Seen(pa) == map_addr(cpu, pa) # 0 /\ RamKey(cpu, pa) \in DOMAIN ram

Reset ==
    /\ ~aborted
    /\ \E v \in (IF Seen(65532) /\ Seen(65533) THEN {0} ELSE HostVectors) :
       \E probe \in {mos6502_reset(World, v \div 256, v % 256, 0, ZeroInstr)} :
       \E unseen \in {~probe.aborted /\ ~Seen(probe.bus[Len(probe.bus)][2])
                       /\ probe.bus[Len(probe.bus)][2] \notin {65532, 65533}} :
           \E in \in (IF unseen THEN ShapeAt(1) ELSE {0}) :
           \E oob \in (IF ~probe.aborted
                          /\ (IF unseen THEN in ELSE LastByte(probe)) >= TableLen
                       THEN OobInstrs ELSE {ZeroInstr}) :
           \E r \in {mos6502_reset(World, v \div 256, v % 256, in, oob)} :
                    IF r.aborted THEN Crash("reset")
                    ELSE /\ cpu' = r.cpu
                         /\ ram' = r.ram
                         /\ call' = "reset"
                         /\ bus' = r.bus
                         /\ opcode' = LastByte(r)
                         /\ nticks' = 0
                         /\ ntrue' = 0
                         /\ nfetch' = 1
                         /\ nresets' = nresets + 1
                         /\ clean' = (LastByte(r) \in SupportedOpcodes)
                         /\ pushed' = NotePush(NoPush, TRUE, r.cpu)
                         /\ UNCHANGED <<aborted, retired, done, shape, arg,
                                        naccess>>

Tick ==
    /\ ~aborted
    /\ nticks < MaxTicks
    /\ \E probe \in {mos6502_tick(World, 0, ZeroInstr)} :
       \E fetches \in {~probe.aborted /\ probe.retired /\ ~probe.cpu.halted} :
       \E unseen \in {/\ probe.bus # <<>>
                      /\ \/ DOMAIN probe.ram # DOMAIN ram /\ probe.bus[1][1] = "load"
                         \/ probe.bus[1][1] = "mmio" /\ ~probe.bus[1][4]} :
           \E in \in (IF ~unseen THEN {0}
                      ELSE IF fetches THEN ShapeAt(nfetch + 1) ELSE DataBytes) :
           \E oob \in (IF fetches /\ (IF unseen THEN in ELSE LastByte(probe)) >= TableLen
                       THEN OobInstrs ELSE {ZeroInstr}) :
           \E r \in {mos6502_tick(World, in, oob)} :
             LET f == r.retired /\ ~r.cpu.halted
             IN  IF r.aborted THEN Crash("tick")
                 ELSE /\ cpu' = r.cpu
                      /\ ram' = r.ram
                      /\ call' = "tick"
                      /\ retired' = r.retired
                      /\ bus' = r.bus
                      /\ opcode' = IF f THEN LastByte(r) ELSE opcode
                      /\ nticks' = IF f THEN 0
                                   ELSE IF cpu.halted THEN nticks ELSE nticks + 1
                      /\ done' = IF r.retired THEN <<opcode, nticks + 1>> ELSE done
                      /\ ntrue' = IF r.retired THEN ntrue + 1 ELSE ntrue
                      /\ nfetch' = IF f THEN nfetch + 1 ELSE nfetch
                      /\ clean' = (clean /\ (f => LastByte(r) \in SupportedOpcodes))
                      /\ pushed' = NotePush(pushed, f, r.cpu)
                      /\ UNCHANGED <<aborted, nresets, shape, arg, naccess>>

MapMmioRegion ==
    /\ ~aborted
    /\ \E a \in MmioInputs :
          LET r == mos6502_map_mmio_region(World, a[1], a[2], a[3])
          IN  IF r.aborted THEN Crash("map_mmio_region")
              ELSE /\ cpu' = r.cpu
                   /\ call' = "map_mmio_region"
                   /\ bus' = r.bus
                   /\ UNCHANGED <<ram, aborted, retired, opcode, nticks, done,
                                  ntrue, nfetch, nresets, clean, shape, pushed,
                                  arg, naccess>>

\* a bypass accessor call ends in _ep_abort: the arguments of the call are
\* all that is recorded of it
CrashAt(op, a) ==
    /\ aborted' = TRUE
    /\ call' = op
    /\ arg' = a
    /\ naccess' = naccess + 1
    /\ UNCHANGED <<cpu, ram, retired, bus, opcode, nticks, done, ntrue, nfetch,
                   nresets, clean, shape, pushed>>

LoadWord ==
    /\ ~aborted
    /\ naccess < MaxAccess
    /\ \E addr \in BusAddrs :
       \E in \in (IF map_addr(cpu, addr) = 0 \/ Seen(addr) THEN {0} ELSE BusBytes) :
       \E r \in {mos6502_load_word(World, addr, in)} :
           IF r.aborted THEN CrashAt("load_word", <<addr>>)
           ELSE /\ cpu' = r.cpu
                /\ ram' = r.ram
                /\ call' = "load_word"
                /\ bus' = r.bus
                /\ arg' = <<addr>>
                /\ naccess' = naccess + 1
                /\ UNCHANGED <<aborted, retired, opcode, nticks, done, ntrue,
                               nfetch, nresets, clean, shape, pushed>>

StoreWord ==
    /\ ~aborted
    /\ naccess < MaxAccess
    /\ \E addr \in BusAddrs, val \in StoreBytes :
       \E r \in {mos6502_store_word(World, addr, val)} :
           IF r.aborted THEN CrashAt("store_word", <<addr, val>>)
           ELSE /\ cpu' = r.cpu
                /\ ram' = r.ram
                /\ call' = "store_word"
                /\ bus' = r.bus
                /\ arg' = <<addr, val>>
                /\ naccess' = naccess + 1
                /\ UNCHANGED <<aborted, retired, opcode, nticks, done, ntrue,
                               nfetch, nresets, clean, shape, pushed>>

\* The documented lifecycle: regions are mapped, the CPU is reset once, then
\* it is driven by ticks
Next ==
    \/ (nresets = 0 /\ MapRamRegion)
    \/ (nresets = 0 /\ Reset)
    \/ (nresets > 0 /\ Tick)

Spec == Init /\ [][Next]_vars

\* The host calls the API in any order: ticks before a reset, regions mapped
\* late, resets in the middle of an instruction or of a halt
InitAny == Created /\ shape = "any"

NextAny ==
    \/ MapRamRegion
    \/ (nresets < MaxResets /\ Reset)
    \/ Tick

SpecAny == InitAny /\ [][NextAny]_vars

\* the world after a call, as the next call finds it
Returned(w) == [w EXCEPT !.bus = <<>>, !.retired = FALSE]

\* The state in which the program LDA #a; CLC or SEC; ADC # or SBC # at
\* 0x0000, run from reset on a CPU with all 64 KiB mapped as RAM, has fetched
\* its third opcode: two instructions of two cycles each have retired
InitAddc ==
    \E a \in 0 .. 255, carry \in {24, 56}, op \in {105, 233} :
        /\ cpu = [mos6502_init EXCEPT
                    !.nregions = 1,
                    !.pa_map = <<[base |-> 0, size |-> U32(65536), mapped |-> "ram",
                                  is_ram |-> TRUE]>>,
                    !.PC = 4, !.AB = 1, !.SP = 253, !.A = a,
                    !.P = change_flags(set_value_flags(SR_I + SR_U, a), SR_C,
                                       IF carry = 56 THEN SR_C ELSE 0),
                    !.cycle = 12, !.total_retired = 2,
                    !.instr = mos_opcodes[op]]
        /\ ram = (<<"ram", 0>> :> 169 @@ <<"ram", 1>> :> a @@
                  <<"ram", 2>> :> carry @@ <<"ram", 3>> :> op @@
                  <<"ram", 65532>> :> 0 @@ <<"ram", 65533>> :> 0)
        /\ aborted = FALSE
        /\ call = "tick"
        /\ retired = TRUE
        /\ bus = <<<<"load", 3, op>>>>
        /\ opcode = op
        /\ nticks = 0
        /\ done = <<carry, 2>>
        /\ ntrue = 2
        /\ nfetch = 3
        /\ nresets = 1
        /\ clean = TRUE
        /\ shape = "addc"
        /\ pushed = NoPush
        /\ arg = <<>>
        /\ naccess = 0

\* the arithmetic instruction is ticked until it has retired
NextAddc == opcode \in {105, 233} /\ Tick

SpecAddc == InitAddc /\ [][NextAddc]_vars

\* A test program run once: the map, the reset, then ticks up to the fetch of
\* the program's last opcode
NextTest(last) ==
    \/ (nresets = 0 /\ cpu.nregions = 0 /\ MapRamRegion)
    \/ (nresets = 0 /\ cpu.nregions = 1 /\ Reset)
    \/ (nresets = 1 /\ nfetch < last /\ Tick)

InitFlags == Created /\ shape = "flags"

NextFlags == NextTest(4)

SpecFlags == InitFlags /\ [][NextFlags]_vars

\* The stack round trips, from every stack pointer
InitStack == Created /\ shape = "stack"

NextStack == NextTest(7)

SpecStack == InitStack /\ [][NextStack]_vars

\* The indexed modes, X and Y holding the same index
InitPage == Created /\ shape = "page"

NextPage == NextTest(4)

SpecPage == InitPage /\ [][NextPage]_vars

\* A host that maps RAM and MMIO regions, resets once, ticks a short program
\* and inspects memory through the bypass accessors at any time
InitBus == Created /\ shape = "bus"

NextBus ==
    \/ (nresets = 0 /\ MapRamRegion)
    \/ (nresets = 0 /\ MapMmioRegion)
    \/ (nresets = 0 /\ Reset)
    \/ (nresets > 0 /\ Tick)
    \/ LoadWord
    \/ StoreWord

SpecBus == InitBus /\ [][NextBus]_vars

\* A test program run by a host that keeps calling tick once the CPU is
\* reset, as the loop while (!mos6502_is_halted(cpu)) mos6502_tick(cpu) of
\* run_test_cpu does
InitLive == Created /\ shape = "live"

NextLive ==
    \/ (nresets = 0 /\ cpu.nregions = 0 /\ MapRamRegion)
    \/ (nresets = 0 /\ cpu.nregions = 1 /\ Reset)
    \/ (nresets = 1 /\ Tick)

SpecLive == InitLive /\ [][NextLive]_vars /\ WF_vars(nresets = 1 /\ Tick)

\* A host that only builds the address map
InitMap == Created /\ shape = "map"

NextMap == MapRamRegion

SpecMap == InitMap /\ [][NextMap]_vars

TypeOK ==
    /\ cpu.PC \in 0..(W16 - 1) /\ cpu.AB \in 0..(W16 - 1)
    /\ cpu.A \in 0..255 /\ cpu.X \in 0..255 /\ cpu.Y \in 0..255
    /\ cpu.P \in 0..255 /\ cpu.SP \in 0..255 /\ cpu.DB \in 0..255
    /\ cpu.instr.cycle \in 0..255 /\ cpu.instr.ncycles \in 0..255
    /\ \A k \in DOMAIN ram : ram[k] \in 0..255

(* ------------------------------------------------------------------ *)
(* Cycle counts                                                        *)
(* ------------------------------------------------------------------ *)

\* CLD and SED abort in their first tick
FatalOpcodes == {216, 248}
Countable == SupportedOpcodes \ FatalOpcodes

\* For an indexed mode whose address is latched, AB = base + index: whether
\* the low byte of the base plus the index carried into the high byte
PageCrossed(o, c) ==
    /\ mos_opcodes[o].mode \in {"ABSX", "ABSY", "INDY"}
    /\ LET index == IF mos_opcodes[o].mode = "ABSX" THEN c.X ELSE c.Y
           base  == (c.AB + W16 - index) % W16
       IN  (base % 256) + index > 255

\* the 6502 cycle count: the table's base count, plus one for a page cross of
\* an xpage_stall opcode
ExpectedTicks(o, c) ==
    mos_opcodes[o].ncycles
      + (IF mos_opcodes[o].xpage_stall /\ PageCrossed(o, c) THEN 1 ELSE 0)

\* C1: for every supported opcode but CLD/SED, the tick that returns true is
\* the n-th tick since the opcode was fetched, n being the table's base count
\* plus 1 iff the opcode is xpage_stall and the index carries out of the base's
\* low byte; every tick before it returns false (it is not yet the n-th).
C1_CycleCount ==
    (call = "tick" /\ ~aborted) =>
        /\ (retired /\ done[1] \in Countable) =>
                done[2] = ExpectedTicks(done[1], cpu)
        /\ (~retired /\ ~cpu.halted /\ opcode \in Countable) =>
                nticks < (IF cpu.instr.address_latched
                          THEN ExpectedTicks(opcode, cpu)
                          ELSE mos_opcodes[opcode].ncycles)

\* LDA abs,X has crossed a page and retired on its fifth tick
C1_Witness ==
    /\ call = "tick" /\ retired /\ ~aborted
    /\ done = <<189, 5>>
    /\ PageCrossed(189, cpu)

(* ------------------------------------------------------------------ *)
(* Counters                                                            *)
(* ------------------------------------------------------------------ *)

\* a step in which a call of mos6502_tick returned
TickReturned == call' = "tick" /\ ~aborted /\ ~aborted'

\* C2 as stated: every tick on a reset CPU adds exactly 1 to cycle.
C2_EveryTickAddsOne ==
    [][(TickReturned /\ nresets > 0) => cpu'.cycle = cpu.cycle + 1]_vars

\* C2, amended: a tick on a reset CPU that is not halted adds exactly 1 to
\* cycle, whether it returns true or false; a tick on a halted CPU leaves
\* cycle as it is.
C2_CyclePerTick ==
    [][(TickReturned /\ nresets > 0) =>
            cpu'.cycle = cpu.cycle + (IF cpu.halted THEN 0 ELSE 1)]_vars

\* ticks of both kinds have run: three retirements, then a tick on the halted CPU
C2_Witness ==
    /\ call = "tick" /\ ~aborted /\ nresets > 0
    /\ cpu.halted /\ ~retired /\ ntrue = 3
    /\ cpu.cycle > 8 + 3

\* C3: after a reset and any ticks, total_retired is the number of those
\* ticks that returned true.
C3_RetiredCount ==
    (nresets > 0 /\ ~aborted) => cpu.total_retired = ntrue

\* a setup instruction, a five-cycle instruction and the KIL have retired
C3_Witness ==
    /\ nresets > 0 /\ ~aborted /\ call = "tick" /\ retired
    /\ cpu.halted /\ cpu.total_retired = 3

(* ------------------------------------------------------------------ *)
(* Halting                                                             *)
(* ------------------------------------------------------------------ *)

\* C4: once halted, a tick returns false, changes nothing of the CPU record
\* (registers, instr, counters, region map) or of RAM and makes no bus access;
\* halted stays true until reset is called.
C4_HaltedAbsorbs ==
    [][cpu.halted =>
        /\ (call' = "tick" /\ ~aborted) =>
              (~aborted' /\ ~retired' /\ cpu' = cpu /\ ram' = ram /\ bus' = <<>>)
        /\ (call' # "reset" \/ aborted') => cpu'.halted]_vars

\* a tick has been called on a halted CPU
C4_Witness ==
    /\ cpu.halted /\ call = "tick" /\ ~retired /\ ~aborted /\ bus = <<>>
    /\ cpu.A = 128 /\ cpu.total_retired = 2

\* C5: with one of the twelve KIL/JAM opcodes as the current instruction, the
\* next tick returns true, sets halted, adds 1 to cycle and to total_retired,
\* fetches nothing (PC unchanged, no bus access) and leaves A, X, Y, P, SP.
C5_KilHalts ==
    [][(opcode \in HltOpcodes /\ ~cpu.halted /\ ~aborted /\ call' = "tick") =>
        /\ ~aborted' /\ retired' /\ cpu'.halted
        /\ cpu'.cycle = cpu.cycle + 1
        /\ cpu'.total_retired = cpu.total_retired + 1
        /\ cpu'.PC = cpu.PC /\ bus' = <<>>
        /\ cpu'.A = cpu.A /\ cpu'.X = cpu.X /\ cpu'.Y = cpu.Y
        /\ cpu'.P = cpu.P /\ cpu'.SP = cpu.SP]_vars

\* KIL 0xF2 has halted the CPU in one tick
C5_Witness ==
    /\ opcode = 242 /\ cpu.halted /\ call = "tick" /\ retired /\ ~aborted
    /\ done = <<242, 1>>

(* ------------------------------------------------------------------ *)
(* Status register and stack pointer                                   *)
(* ------------------------------------------------------------------ *)

\* C8: in every state reached from reset by ticks of a program of supported
\* opcodes, bit 5 (U) of P is 1 and bit 4 (B) of P is 0.
C8_UnusedSetBreakClear ==
    (nresets > 0 /\ ~aborted /\ clean) =>
        (BitAnd(cpu.P, SR_U) = SR_U /\ BitAnd(cpu.P, SR_B) = 0)

\* PLP has pulled a byte with B set (0xFF), and one with U clear (0x00)
C8_Witness ==
    /\ nresets > 0 /\ ~aborted /\ clean
    /\ call = "tick" /\ retired /\ done[1] = 40
    /\ bus # <<>>
    /\ cpu.P = 255 - SR_B

\* C9: a tick leaves SP unchanged unless the current instruction is PHA, PLA,
\* PHP, PLP or TXS.
C9_SPFrame ==
    [][(TickReturned /\ cpu.instr.uop \notin StackUops) => cpu'.SP = cpu.SP]_vars

\* STA abs has run and retired with SP moved away from its reset value by a
\* TXS before it
C9_Witness ==
    /\ call = "tick" /\ retired /\ ~aborted
    /\ done[1] = 141 /\ cpu.SP = 0

(* ------------------------------------------------------------------ *)
(* Reset                                                               *)
(* ------------------------------------------------------------------ *)

\* the byte RAM holds at pa, once seen
RamAt(pa) == ram[RamKey(cpu, pa)]

\* the reset vector M[0xFFFC] | (M[0xFFFD] << 8)
ResetVector == RamAt(65532) + 256 * RamAt(65533)

\* the decode table as a full 256-entry table: every byte the initialisers
\* do not name is an unpopulated (zero) entry
DecodeEntry(b) ==
    IF b \in SupportedOpcodes THEN mos_opcodes[b] ELSE ZeroInstr

\* what reset leaves when the opcode byte at the vector target is b
ResetLeaves(b) ==
    /\ cpu.PC = (ResetVector + 1) % W16
    /\ cpu.SP = 253
    /\ cpu.P = SR_I + SR_U
    /\ ~cpu.halted
    /\ cpu.cycle = 8
    /\ cpu.total_retired = 0
    /\ cpu.instr = DecodeEntry(b)
    /\ cpu.instr.cycle = 0 /\ ~cpu.instr.address_latched

\* C6: reset called in any state with 0xFFFC, 0xFFFD and the vector target
\* mapped leaves PC = (v + 1) mod 2^16, SP = 0xFD, P = I|U, halted clear,
\* cycle = 8, total_retired = 0 and instr = the decode-table entry of the
\* opcode byte at v, with instr.cycle = 0 and address_latched clear.
C6_ResetState ==
    (call = "reset" /\ ~aborted) => ResetLeaves(RamAt(ResetVector))

\* C6 for the opcode bytes that index an element of mos_opcodes (0x00..0xFE)
C6_ResetStateInTable ==
    (call = "reset" /\ ~aborted /\ RamAt(ResetVector) < TableLen) =>
        ResetLeaves(RamAt(ResetVector))

\* a second reset, called in the middle of an instruction or of a halt
C6_Witness ==
    /\ call = "reset" /\ ~aborted /\ nresets = 2
    /\ cpu.A = 128 /\ RamAt(ResetVector) = 169

\* C7: reset leaves A, X and Y as they were, and modifies neither the region
\* map nor any byte of mapped RAM.
C7_ResetFrame ==
    [][(call' = "reset" /\ ~aborted /\ ~aborted') =>
        /\ cpu'.A = cpu.A /\ cpu'.X = cpu.X /\ cpu'.Y = cpu.Y
        /\ cpu'.nregions = cpu.nregions /\ cpu'.pa_map = cpu.pa_map
        /\ \A k \in DOMAIN ram : ram'[k] = ram[k]
        /\ \A i \in DOMAIN bus' : bus'[i][1] = "load"]_vars

\* a reset has been called with A and X loaded and a byte of RAM written
C7_Witness ==
    /\ call = "reset" /\ ~aborted /\ nresets = 2
    /\ cpu.A = 255
    /\ \E k \in DOMAIN ram : k[2] \notin {0, 1, 2, 65532, 65533, 65535}

(* ------------------------------------------------------------------ *)
(* ADC and SBC                                                         *)
(* ------------------------------------------------------------------ *)

\* bit b (a power of two) of the status byte p
Flag(p, b) == (p \div b) % 2 = 1

\* the tick in which ADC # or SBC # reads its operand and executes
AddcExecutes ==
    /\ opcode \in {105, 233} /\ nticks = 0
    /\ call' = "tick" /\ ~aborted /\ ~aborted'

\* what the claim says A and P are after adding m to a with carry-in c
AddcResult(a, m, c, A2, P2) ==
    LET sum == a + m + c
        res == sum % 256
    IN  /\ A2 = res
        /\ Flag(P2, SR_C) <=> sum > 255
        /\ Flag(P2, SR_V) <=>
             BitAnd(BitAnd(BitXor(a, res), BitXor(m, res)), 128) # 0
        /\ Flag(P2, SR_Z) <=> res = 0
        /\ Flag(P2, SR_N) <=> res >= 128

\* C10: for all 8-bit A, all 8-bit operands M and both carry-in values, ADC
\* computes sum = A + M + C, writes sum mod 256 to A, sets C iff sum > 0xFF,
\* sets V iff ((A_old xor result) and (M xor result) and 0x80) != 0 and sets
\* Z/N from the result; SBC produces what ADC produces with M replaced by
\* M xor 0xFF.
C10_AddSub ==
    [][AddcExecutes =>
        LET M == bus'[1][3]
            C == IF Flag(cpu.P, SR_C) THEN 1 ELSE 0
        IN  AddcResult(cpu.A, IF opcode = 105 THEN M ELSE BitXor(M, 255), C,
                       cpu'.A, cpu'.P)]_vars

\* SBC #0x80 from A = 0 with the carry set has executed: 0x00 + 0x7F + 1
\* leaves 0x80 with N and V set and C clear
C10_Witness ==
    /\ opcode = 233 /\ nticks = 1 /\ call = "tick" /\ ~aborted
    /\ bus = <<<<"load", 4, 128>>>>
    /\ ram[<<"ram", 1>>] = 0 /\ ram[<<"ram", 2>>] = 56
    /\ cpu.A = 128 /\ cpu.P = SR_N + SR_V + SR_U + SR_I

(* ------------------------------------------------------------------ *)
(* The address map                                                     *)
(* ------------------------------------------------------------------ *)

\* a range of size >= 1 with base + size - 1 <= 0xFFFF
Fits(base, size) ==
    \/ size[1] = 0 /\ size[2] >= 1 /\ base + size[2] - 1 <= W16 - 1
    \/ size = U32(W16) /\ base = 0

\* the last address a range covers, none (-1) for an empty range
LastAddr(r) ==
    IF r.size = U32(0) THEN -1
    ELSE IF r.size[1] > 0 \/ r.base + r.size[2] - 1 > W16 - 1 THEN W16 - 1
    ELSE r.base + r.size[2] - 1

\* two ranges share at least one address
Shares(r1, r2) ==
    /\ r1.base <= LastAddr(r1) /\ r2.base <= LastAddr(r2)
    /\ r1.base <= LastAddr(r2) /\ r2.base <= LastAddr(r1)

\* base_i + size_i - 1 < base_j, in the integers
EndsBefore(r1, r2) == r1.size[1] = 0 /\ r1.base + r1.size[2] - 1 < r2.base

\* the call the requirements of map_ram_region allow in the current state
MayMap(a) ==
    /\ a[3] # "NULL" /\ Fits(a[1], a[2])
    /\ cpu.nregions < MaxRegions
    /\ \A i \in 1..cpu.nregions :
          ~Shares([base |-> a[1], size |-> a[2]], cpu.pa_map[i])

\* C18: map_ram_region succeeds (adds the region and increases nregions by
\* 1) for every call with non-null ptr, size >= 1, base + size - 1 <= 0xFFFF
\* and no overlap with a mapped region while capacity remains; consequently
\* every mapped region satisfies base + size - 1 <= 0xFFFF.
C18_MapSucceeds ==
    /\ \A i \in 1..cpu.nregions : Fits(cpu.pa_map[i].base, cpu.pa_map[i].size)
    /\ ~aborted =>
         \A a \in MapArgs :
            MayMap(a) =>
               LET r == mos6502_map_ram_region(World, a[1], a[2], a[3])
               IN  /\ ~r.aborted
                   /\ r.cpu.nregions = cpu.nregions + 1
                   /\ \E i \in 1..r.cpu.nregions :
                         /\ r.cpu.pa_map[i].base = a[1]
                         /\ r.cpu.pa_map[i].size = a[2]

\* C19: after any sequence of successful region insertions the regions
\* pa_map[0..nregions-1] are pairwise disjoint and strictly ascending by base
\* (for every i < j: base_i + size_i - 1 < base_j), and nregions <= 8.
C19_SortedDisjoint ==
    /\ cpu.nregions <= MaxRegions
    /\ cpu.nregions = Len(cpu.pa_map)
    /\ \A i, j \in 1..cpu.nregions :
          i < j => EndsBefore(cpu.pa_map[i], cpu.pa_map[j])

\* the map without its i-th region
Without(seq, i) == SubSeq(seq, 1, i - 1) \o SubSeq(seq, i + 1, Len(seq))

\* C20: inserting a range is fatal, and leaves no new region in the map,
\* whenever the new range shares at least one address with an existing region
\* or whenever 8 regions are already mapped: a call that returned with a new
\* region found fewer than 8 regions, none of them sharing an address with it.
C20_OverlapFatal ==
    [][(call' = "map_ram_region" /\ ~aborted' /\ cpu'.pa_map # cpu.pa_map) =>
        /\ cpu.nregions < MaxRegions
        /\ \A i \in 1..Len(cpu'.pa_map) :
              Without(cpu'.pa_map, i) = cpu.pa_map =>
                 \A j \in 1..cpu.nregions :
                    ~Shares(cpu'.pa_map[i], cpu.pa_map[j])]_vars

\* C19 and C20 for the maps whose regions all end at or below 0xFFFF
AllFit == \A i \in 1..cpu.nregions : Fits(cpu.pa_map[i].base, cpu.pa_map[i].size)
C19_SortedDisjointFitting == AllFit => C19_SortedDisjoint

\* a call that aborted: the map is as it was, whatever the reason
C20_AbortKeepsMap ==
    [][(call' = "map_ram_region" /\ aborted') => cpu'.pa_map = cpu.pa_map]_vars

(* ------------------------------------------------------------------ *)
(* Value flags                                                         *)
(* ------------------------------------------------------------------ *)

\* the uops that end in set_value_flags and the register holding the value
ValueReg ==
    [LDA |-> "A", PLA |-> "A", TXA |-> "A", TYA |-> "A", AND |-> "A",
     EOR |-> "A", ORA |-> "A",
     LDX |-> "X", TAX |-> "X", TSX |-> "X", INX |-> "X", DEX |-> "X",
     LDY |-> "Y", TAY |-> "Y", INY |-> "Y", DEY |-> "Y"]

\* the instruction being ticked is one of them
SetsValueFlags ==
    opcode \in SupportedOpcodes /\ mos_opcodes[opcode].uop \in DOMAIN ValueReg

\* C11: for every 8-bit value v, set_value_flags(v) (as applied by loads,
\* TAX/TAY/TSX/TXA/TYA, INX/DEX/INY/DEY, AND/EOR/ORA, PLA) leaves Z set iff
\* v = 0 and N set iff v >= 0x80, and leaves the bits V, C, I, D, B, U of P
\* unchanged: no tick of such an instruction changes those six bits, and when
\* it retires Z and N describe the value in its register.
C11_ValueFlags ==
    [][(SetsValueFlags /\ TickReturned) =>
        /\ \A b \in {SR_V, SR_C, SR_I, SR_D, SR_B, SR_U} :
              Flag(cpu'.P, b) <=> Flag(cpu.P, b)
        /\ retired' =>
              LET v == cpu'[ValueReg[mos_opcodes[opcode].uop]]
              IN  /\ Flag(cpu'.P, SR_Z) <=> v = 0
                  /\ Flag(cpu'.P, SR_N) <=> v >= 128]_vars

\* PLP has pulled V, D, I and C and also N and Z, LDX # has loaded 0x7F, and
\* INX has retired with X = 0x80: N set, Z clear, V, D, I, C as pulled
C11_Witness ==
    /\ call = "tick" /\ ~aborted /\ retired /\ done = <<232, 2>>
    /\ cpu.X = 128
    /\ cpu.P = SR_N + SR_V + SR_U + SR_D + SR_I + SR_C
    /\ ram[<<"ram", 510>>] = 255

(* ------------------------------------------------------------------ *)
(* TXS                                                                 *)
(* ------------------------------------------------------------------ *)

\* C12: TXS sets SP to X and changes no flag: for every X and every prior P,
\* P after TXS retires equals P before it (in particular N and Z are not
\* updated from X).
C12_TxsKeepsFlags ==
    [][(opcode = 154 /\ TickReturned) =>
        /\ cpu'.P = cpu.P
        /\ retired' => cpu'.SP = cpu.X]_vars

\* what TXS does do: SP = X when it retires, and only N and Z may change
C12_TxsSetsSP ==
    [][(opcode = 154 /\ TickReturned) =>
        /\ BitAnd(cpu'.P, 255 - SR_N - SR_Z) = BitAnd(cpu.P, 255 - SR_N - SR_Z)
        /\ retired' => cpu'.SP = cpu.X]_vars

(* ------------------------------------------------------------------ *)
(* Stack round trips                                                   *)
(* ------------------------------------------------------------------ *)

\* the tick retires a pull that is the first instruction to move SP or to
\* write memory since the push op was fetched
PullsAfter(push, pull) ==
    /\ TickReturned /\ retired'
    /\ cpu.instr.uop = pull
    /\ pushed.op = push /\ pushed.later = 1

\* C13: PHA followed later by PLA, with no other stack operation and no write
\* to that stack byte in between, leaves A at its value at the PHA and SP at
\* its value before the PHA; PHP followed by PLP likewise leaves every bit of
\* P outside B and U, and SP, at their values at the PHP. This holds from
\* every SP, 0x00 included.
C13_RoundTrip ==
    [][/\ PullsAfter("PHA", "PLA") =>
            (cpu'.A = pushed.A /\ cpu'.SP = pushed.SP)
       /\ PullsAfter("PHP", "PLP") =>
            /\ BitAnd(cpu'.P, 255 - SR_B - SR_U) = BitAnd(pushed.P, 255 - SR_B - SR_U)
            /\ cpu'.SP = pushed.SP]_vars

\* PLA has brought back 0x80 pushed at SP = 0x00, over the 0 that LDA # had
\* put in A in between
C13_Witness ==
    /\ ~aborted /\ call = "tick" /\ retired /\ done[1] = 104
    /\ pushed = [op |-> "PHA", A |-> 128, P |-> pushed.P, SP |-> 0, later |-> 1]
    /\ cpu.A = 128 /\ cpu.SP = 0
    /\ RamAt(256) = 128 /\ RamAt(6) = 169 /\ RamAt(7) = 0

(* ------------------------------------------------------------------ *)
(* The delay cycle of the indexed modes                                *)
(* ------------------------------------------------------------------ *)

\* the current instruction has one of the three modes with a delay cycle
DelayMode == cpu.instr.mode \in {"ABSX", "ABSY", "INDY"}

\* the tick reads the high byte of the base, AB holding its low byte
FormsBase ==
    /\ TickReturned /\ DelayMode /\ ~cpu.instr.address_latched
    /\ cpu.instr.cycle = (IF cpu.instr.mode = "INDY" THEN 2 ELSE 1)

IndexReg == IF cpu.instr.mode = "ABSX" THEN cpu.X ELSE cpu.Y

\* the tick ends in the delay sub-cycle: the base is on AB, not yet latched
Delayed ==
    /\ ~cpu'.instr.address_latched
    /\ cpu'.AB % 256 = cpu.AB % 256

\* C14: in ABSX, ABSY and INDY modes an xpage_stall instruction takes the
\* delay sub-cycle, its ncycles growing by 1, exactly when (base mod 256) +
\* index > 0xFF, and its ncycles changes on no other tick; an always_stall
\* instruction takes the delay sub-cycle for every base and index and its
\* ncycles never changes. After the delay the address base + index is latched.
C14_PageCross ==
    [][/\ (FormsBase /\ cpu.instr.always_stall) =>
            (Delayed /\ cpu'.instr.ncycles = cpu.instr.ncycles)
       /\ (FormsBase /\ ~cpu.instr.always_stall /\ cpu.instr.xpage_stall) =>
            /\ Delayed <=> (cpu.AB % 256) + IndexReg > 255
            /\ cpu'.instr.ncycles =
                  cpu.instr.ncycles + (IF (cpu.AB % 256) + IndexReg > 255 THEN 1 ELSE 0)
       /\ (TickReturned /\ DelayMode /\ ~FormsBase /\ ~retired') =>
            cpu'.instr.ncycles = cpu.instr.ncycles
       /\ (TickReturned /\ DelayMode /\ ~FormsBase /\ ~cpu.instr.address_latched
             /\ cpu.instr.cycle = (IF cpu.instr.mode = "INDY" THEN 3 ELSE 2)) =>
            /\ cpu'.instr.address_latched
            /\ cpu'.AB = (cpu.AB + IndexReg) % W16]_vars

\* LDA (zp),Y has retired in six ticks after crossing from 0x02FF with Y = 1
C14_Witness ==
    /\ ~aborted /\ call = "tick" /\ retired /\ done = <<177, 6>>
    /\ cpu.Y = 1 /\ RamAt(128) = 255 /\ RamAt(129) = 2
    /\ RamKey(cpu, 768) \in DOMAIN ram

(* ------------------------------------------------------------------ *)
(* Zero-page indexed addressing                                        *)
(* ------------------------------------------------------------------ *)

ZeroMode == cpu.instr.mode \in {"ZX", "ZY"}

ZeroIndex == IF cpu.instr.mode = "ZX" THEN cpu.X ELSE cpu.Y

\* the operand byte of the current two-byte instruction, once PC is past it
OperandByte == RamAt((cpu.PC + W16 - 1) % W16)

\* C15: in ZX and ZY modes the latched effective address AB is (b + index)
\* mod 256 for the operand byte b and the index register, so it lies in
\* 0x0000..0x00FF; AB keeps that value and every access the instruction
\* makes before it retires goes to it.
C15_ZeroPageWrap ==
    [][/\ (TickReturned /\ ZeroMode /\ ~cpu.instr.address_latched
             /\ cpu.instr.cycle = 1) =>
            /\ cpu'.instr.address_latched
            /\ cpu'.AB = (OperandByte + ZeroIndex) % 256
            /\ cpu'.AB \in 0 .. 255
       /\ (TickReturned /\ ZeroMode /\ cpu.instr.address_latched /\ ~retired') =>
            /\ cpu'.AB = cpu.AB
            /\ \A k \in DOMAIN bus' : bus'[k][2] = cpu.AB]_vars

\* LDX zp,Y with operand 0xFF and Y = 0xFF has read its data at 0x00FE
C15_Witness ==
    /\ ~aborted /\ call = "tick" /\ ~retired /\ opcode = 182
    /\ cpu.Y = 255 /\ RamAt(5) = 255
    /\ cpu.instr.address_latched /\ cpu.AB = 254
    /\ bus = <<<<"load", 254, 0>>>>

(* ------------------------------------------------------------------ *)
(* Opcodes without a decode-table entry                                *)
(* ------------------------------------------------------------------ *)

\* C16: an opcode byte outside the supported set is fatal when fetched: no
\* tick of a CPU whose current instruction was decoded from such a byte
\* returns.
C16_UnsupportedFatal ==
    [][(~aborted /\ opcode \notin SupportedOpcodes \cup {-1} /\ call' = "tick")
         => aborted']_vars

(* ------------------------------------------------------------------ *)
(* CLD and SED                                                         *)
(* ------------------------------------------------------------------ *)

\* C17: CLD (0xD8) and SED (0xF8) are fatal: the first tick of either aborts,
\* so no tick of CLD or SED returns, neither retires and neither changes D.
C17_DecimalFatal ==
    [][(~aborted /\ opcode \in {216, 248} /\ call' = "tick")
         => (aborted' /\ nticks = 0 /\ cpu' = cpu)]_vars

\* the first tick of CLD has aborted with D still set by the PLP before it
C17_Witness ==
    /\ aborted /\ call = "tick" /\ opcode = 216 /\ nticks = 0
    /\ cpu.instr.uop = "CLD" /\ cpu.instr.cycle = 0
    /\ done[1] = 40 /\ Flag(cpu.P, SR_D)

(* ------------------------------------------------------------------ *)
(* The sub-cycle counter                                               *)
(* ------------------------------------------------------------------ *)

\* C23: in every state reached from reset by ticks of a program of supported
\* opcodes 0 <= instr.cycle <= instr.ncycles, and a tick returns true for an
\* instruction other than HLT only when it is called with instr.cycle + 1 =
\* instr.ncycles.
C23_CycleRange ==
    /\ []((nresets > 0 /\ ~aborted /\ clean) =>
            (0 <= cpu.instr.cycle /\ cpu.instr.cycle <= cpu.instr.ncycles))
    /\ [][(TickReturned /\ nresets > 0 /\ clean /\ retired'
            /\ cpu.instr.uop # "HLT") =>
              cpu.instr.cycle + 1 = cpu.instr.ncycles]_vars

\* ROR abs,X has retired in its seventh tick, and the next instruction stands
\* at sub-cycle 0
C23_Witness ==
    /\ ~aborted /\ clean /\ call = "tick" /\ retired
    /\ done = <<126, 7>> /\ cpu.instr.cycle = 0

(* ------------------------------------------------------------------ *)
(* The retiring tick                                                   *)
(* ------------------------------------------------------------------ *)

\* the tick returns true for an instruction other than HLT
RetiresInstr == TickReturned /\ retired' /\ cpu.instr.uop # "HLT"

\* the byte the tick read
ByteRead == bus'[1][3]

\* what the retiring tick does besides replacing instr: one read at PC, PC
\* and the counters advanced, registers and memory untouched
FetchOnly ==
    /\ Len(bus') = 1 /\ bus'[1][1] = "load" /\ bus'[1][2] = cpu.PC
    /\ ram'[RamKey(cpu, cpu.PC)] = ByteRead
    /\ cpu'.PC = (cpu.PC + 1) % W16
    /\ cpu'.total_retired = cpu.total_retired + 1
    /\ cpu'.cycle = cpu.cycle + 1
    /\ cpu'.A = cpu.A /\ cpu'.X = cpu.X /\ cpu'.Y = cpu.Y
    /\ cpu'.P = cpu.P /\ cpu'.SP = cpu.SP /\ cpu'.DB = cpu.DB
    /\ cpu'.AB = cpu.AB
    /\ \A k \in DOMAIN ram : ram'[k] = ram[k]

\* C24: the tick that returns true for an instruction other than HLT reads
\* exactly the byte at PC, replaces instr by the decode-table entry of that
\* byte with instr.cycle = 0 and address_latched clear, advances PC by 1,
\* increments total_retired and cycle, and leaves A, X, Y, P, SP, DB, AB and
\* all memory unchanged.
C24_RetireFetches ==
    [][RetiresInstr =>
        /\ FetchOnly
        /\ cpu'.instr = DecodeEntry(ByteRead)
        /\ cpu'.instr.cycle = 0 /\ ~cpu'.instr.address_latched]_vars

\* C24 for the opcode bytes that index an element of mos_opcodes (0x00..0xFE)
C24_RetireFetchesInTable ==
    [][RetiresInstr =>
        /\ FetchOnly
        /\ ByteRead < TableLen =>
              /\ cpu'.instr = DecodeEntry(ByteRead)
              /\ cpu'.instr.cycle = 0 /\ ~cpu'.instr.address_latched]_vars

(* ------------------------------------------------------------------ *)
(* Effective addresses                                                 *)
(* ------------------------------------------------------------------ *)

\* operand bytes of an instruction, by addressing mode
OperandCount(mode) ==
    CASE mode = "IMP" -> 0
      [] mode \in {"IMM", "Z", "ZX", "ZY", "INDX", "INDY"} -> 1
      [] mode \in {"ABS", "ABSX", "ABSY"} -> 2

\* the address of the opcode byte of the current instruction, the first or
\* the second of the program
InstrStart ==
    IF nfetch = 1 THEN ResetVector
    ELSE (ResetVector + 1 + OperandCount(mos_opcodes[RamAt(ResetVector)].mode)) % W16

\* the byte RAM holds at pa after the tick
RamAfter(pa) == ram'[RamKey(cpu, pa % W16)]

\* the little-endian word at the zero-page locations p and (p + 1) mod 256
ZeroPageWord(p) == RamAfter(p) + 256 * RamAfter((p + 1) % 256)

\* the reference effective address of the current instruction
EffectiveAddress ==
    LET m  == cpu.instr.mode
        o1 == RamAfter(InstrStart + 1)
        o2 == RamAfter(InstrStart + 2)
    IN  CASE m = "IMM"  -> (InstrStart + 1) % W16
          [] m = "Z"    -> o1
          [] m = "ZX"   -> (o1 + cpu.X) % 256
          [] m = "ZY"   -> (o1 + cpu.Y) % 256
          [] m = "ABS"  -> o1 + 256 * o2
          [] m = "ABSX" -> (o1 + 256 * o2 + cpu.X) % W16
          [] m = "ABSY" -> (o1 + 256 * o2 + cpu.Y) % W16
          [] m = "INDX" -> ZeroPageWord((o1 + cpu.X) % 256)
          [] m = "INDY" -> (ZeroPageWord(o1) + cpu.Y) % W16

\* the tick latches the address of the first or second instruction
Latches ==
    /\ TickReturned /\ nresets > 0 /\ nfetch \in {1, 2}
    /\ ~cpu.instr.address_latched /\ cpu'.instr.address_latched

\* C25: when address_latched becomes true PC has advanced past all operand
\* bytes (0 for IMP, 1 for IMM, Z, ZX, ZY, INDX, INDY, 2 for ABS, ABSX, ABSY,
\* modulo 2^16) and, in every mode with an operand, AB is the reference
\* effective address.
C25_EffectiveAddress ==
    [][Latches =>
        /\ cpu'.PC = (InstrStart + 1 + OperandCount(cpu.instr.mode)) % W16
        /\ cpu.instr.mode # "IMP" => cpu'.AB = EffectiveAddress]_vars

\* LDY #0xFF at 0xFFFF, then LDA (zp),Y at 0x0001 with operand 0xFF: the
\* pointer wraps from 0x00FF to 0x0000 and the sum with Y is latched
C25_Witness ==
    /\ ~aborted /\ call = "tick" /\ opcode = 177 /\ nfetch = 2
    /\ cpu.instr.address_latched /\ cpu.Y = 255 /\ cpu.PC = 3
    /\ ResetVector = 65535 /\ RamAt(0) = 255 /\ RamAt(2) = 255
    /\ cpu.AB = (RamAt(255) + 256 * 255 + 255) % W16

(* ------------------------------------------------------------------ *)
(* Read-modify-write instructions                                      *)
(* ------------------------------------------------------------------ *)

\* the current instruction is a memory-form read-modify-write instruction,
\* run on a CPU whose one region maps all 64 KiB
MemRmw ==
    /\ opcode \in SupportedOpcodes
    /\ cpu.instr.uop \in {"INC", "DEC", "ASL", "LSR", "ROL", "ROR"}
    /\ cpu.instr.mode \in {"Z", "ZX", "ABS", "ABSX"}
    /\ cpu.nregions = 1 /\ cpu.pa_map[1].base = 0
    /\ cpu.pa_map[1].size = U32(65536)

\* sub-cycles left before the retiring one
SubCycle == cpu.instr.ncycles - cpu.instr.cycle - 1

\* the byte the instruction uop makes of v with carry flag c
RmwResult(uop, v, c) ==
    CASE uop = "INC" -> (v + 1) % 256
      [] uop = "DEC" -> (v + 255) % 256
      [] uop = "ASL" -> (2 * v) % 256
      [] uop = "LSR" -> v \div 2
      [] uop = "ROL" -> (2 * v + c) % 256
      [] uop = "ROR" -> v \div 2 + 128 * c

\* C26: of a memory-form read-modify-write instruction the three ticks
\* before the retiring one read M[AB] into DB, modify DB, and write DB to
\* M[AB], in this order and with AB unchanged; no other tick of the
\* instruction writes memory, so M[AB] is written once, with op(original
\* byte); no tick of the instruction aborts; at retirement Z and N reflect
\* the written byte.
C26_ReadModifyWrite ==
    [][(MemRmw /\ ~aborted /\ call' = "tick") =>
        /\ ~aborted'
        /\ cpu.instr.address_latched => (SubCycle \in 0 .. 3 /\ cpu'.AB = cpu.AB)
        /\ (cpu.instr.address_latched /\ SubCycle = 3) =>
              /\ Len(bus') = 1 /\ bus'[1][1] = "load" /\ bus'[1][2] = cpu.AB
              /\ cpu'.DB = bus'[1][3] /\ cpu'.DB = RamAfter(cpu.AB)
        /\ (cpu.instr.address_latched /\ SubCycle = 2) =>
              /\ bus' = <<>>
              /\ cpu.DB = RamAt(cpu.AB)
              /\ cpu'.DB = RmwResult(cpu.instr.uop, cpu.DB, IF Flag(cpu.P, SR_C) THEN 1 ELSE 0)
        /\ (cpu.instr.address_latched /\ SubCycle = 1) =>
              /\ bus' = <<<<"store", cpu.AB, cpu.DB>>>>
              /\ RamAfter(cpu.AB) = cpu.DB /\ cpu'.DB = cpu.DB
              /\ \A k \in DOMAIN ram \ {RamKey(cpu, cpu.AB)} : ram'[k] = ram[k]
        /\ (cpu.instr.address_latched /\ SubCycle = 0) =>
              /\ retired'
              /\ Flag(cpu'.P, SR_Z) <=> cpu.DB = 0
              /\ Flag(cpu'.P, SR_N) <=> cpu.DB >= 128
              /\ RamAt(cpu.AB) = cpu.DB
        /\ ~(cpu.instr.address_latched /\ SubCycle = 1) =>
              \A i \in DOMAIN bus' : bus'[i][1] = "load"]_vars

\* INC zp,X has retired in six ticks, having written 0x00 over 0xFF
C26_Witness ==
    /\ ~aborted /\ call = "tick" /\ retired /\ done = <<246, 6>>
    /\ cpu.DB = 0 /\ RamAt(cpu.AB) = 0 /\ Flag(cpu.P, SR_Z)

(* ------------------------------------------------------------------ *)
(* The stack page                                                      *)
(* ------------------------------------------------------------------ *)

\* a tick of PHA or PHP, or of PLA or PLP, returns without retiring it
PushTick ==
    /\ TickReturned /\ ~retired' /\ opcode \in SupportedOpcodes
    /\ cpu.instr.uop \in {"PHA", "PHP"}

PullTick ==
    /\ TickReturned /\ ~retired' /\ opcode \in SupportedOpcodes
    /\ cpu.instr.uop \in {"PLA", "PLP"}

\* C27: every bus access PHA, PHP, PLA and PLP make before the opcode fetch
\* of their retiring tick lies in 0x0100..0x01FF. A push writes once, at
\* 0x0100 | SP with the SP the instruction started with, and then SP is that
\* SP - 1 mod 256; PHA writes A, PHP writes P | B | U and leaves P unchanged.
\* A pull first adds 1 to SP mod 256 and then reads once, at 0x0100 | SP.
C27_StackPage ==
    [][/\ (PushTick \/ PullTick) =>
            \A i \in DOMAIN bus' : bus'[i][2] \in 256 .. 511
       /\ PushTick =>
            /\ pushed.op = cpu.instr.uop /\ pushed.later = 0
            /\ cpu'.P = pushed.P /\ cpu'.A = pushed.A
            /\ cpu.instr.cycle = 0 => (bus' = <<>> /\ cpu'.SP = pushed.SP)
            /\ cpu.instr.cycle = 1 =>
                  /\ bus' = <<<<"store", 256 + pushed.SP,
                               IF cpu.instr.uop = "PHA" THEN pushed.A
                               ELSE BitOr(pushed.P, SR_B + SR_U)>>>>
                  /\ cpu'.SP = (pushed.SP + 255) % 256
            /\ cpu.instr.cycle \in {0, 1}
       /\ PullTick =>
            /\ cpu.instr.cycle = 0 =>
                  (bus' = <<>> /\ cpu'.SP = (cpu.SP + 1) % 256)
            /\ cpu.instr.cycle = 1 => (bus' = <<>> /\ cpu'.SP = cpu.SP)
            /\ cpu.instr.cycle = 2 =>
                  /\ Len(bus') = 1 /\ bus'[1][1] = "load"
                  /\ bus'[1][2] = 256 + cpu.SP /\ cpu'.SP = cpu.SP
            /\ cpu.instr.cycle \in {0, 1, 2}]_vars

\* PHP has written P | B | U at 0x0100 from SP = 0x00, and SP is 0xFF
C27_Witness ==
    /\ ~aborted /\ call = "tick" /\ ~retired /\ opcode = 8
    /\ pushed.SP = 0 /\ cpu.SP = 255
    /\ bus = <<<<"store", 256, cpu.P + SR_B>>>>
    /\ ~Flag(cpu.P, SR_B)

(* ------------------------------------------------------------------ *)
(* One bus access per tick                                             *)
(* ------------------------------------------------------------------ *)

\* C29: a call of tick on an instruction decoded from a supported opcode
\* makes at most one bus access, whatever the addressing mode and sub-cycle:
\* the tick in which IMM or IMP falls through to the uop and the retiring
\* tick included.
C29_OneAccessPerTick ==
    [][(TickReturned /\ opcode \in SupportedOpcodes) => Len(bus') <= 1]_vars

\* the first tick of LDA # has latched the operand's address and read the
\* operand, one access, without retiring
C29_Witness ==
    /\ ~aborted /\ call = "tick" /\ ~retired /\ opcode = 169 /\ nticks = 1
    /\ cpu.instr.address_latched /\ cpu.instr.mode = "IMM"
    /\ bus = <<<<"load", cpu.AB, cpu.A>>>>
    /\ cpu.PC = (cpu.AB + 1) % W16

(* ------------------------------------------------------------------ *)
(* The uop's one tick                                                  *)
(* ------------------------------------------------------------------ *)

\* the uops that read M[AB] and the uops that write it
ReadUops == {"LDA", "LDX", "LDY", "ADC", "SBC", "AND", "EOR", "ORA"}
StoreUops == {"STA", "STX", "STY"}

\* the instruction being ticked is a supported one that is neither a
\* memory-form read-modify-write nor a stack operation nor HLT
PlainInstr ==
    /\ opcode \in SupportedOpcodes
    /\ cpu.instr.uop \notin {"HLT", "PHA", "PHP", "PLA", "PLP"}
    /\ ~(cpu.instr.uop \in {"INC", "DEC"})
    /\ ~(cpu.instr.uop \in {"ASL", "LSR", "ROL", "ROR"} /\ cpu.instr.mode # "IMP")

\* mos6502_tick reaches uop_exec: the address is latched, by an earlier tick
\* or by the IMP or IMM step of this one, and the instruction is not at T+
UopRuns ==
    /\ ~cpu.halted
    /\ cpu.instr.address_latched \/ cpu.instr.mode \in {"IMP", "IMM"}
    /\ ~instr_is_tplus(cpu.instr)

\* C30: a supported instruction that is neither memory-form RMW nor a stack
\* operation nor HLT runs uop_exec in exactly one of its ticks, the one
\* before the retiring tick, with the address latched and every operand and
\* pointer read of the addressing mode done: in that tick a load uop reads
\* M[AB] once and a store uop writes M[AB] once, and in every other tick of
\* the instruction A, X, Y, SP and P stay as they are and nothing is stored.
C30_UopOnce ==
    [][(TickReturned /\ PlainInstr) =>
         /\ UopRuns <=> (cpu.instr.cycle + 2 = cpu.instr.ncycles)
         /\ UopRuns =>
               /\ ~retired' /\ cpu'.instr.address_latched
               /\ cpu'.instr.ncycles = cpu.instr.ncycles
               /\ cpu.instr.mode \notin {"IMP", "IMM"} =>
                     (cpu'.AB = cpu.AB /\ cpu'.PC = cpu.PC)
               /\ cpu.instr.uop \in ReadUops =>
                     (Len(bus') = 1 /\ bus'[1][1] = "load" /\ bus'[1][2] = cpu'.AB)
               /\ cpu.instr.uop \in StoreUops =>
                     (Len(bus') = 1 /\ bus'[1][1] = "store" /\ bus'[1][2] = cpu'.AB)
               /\ cpu.instr.uop \notin ReadUops \cup StoreUops => bus' = <<>>
         /\ ~UopRuns =>
               /\ cpu'.A = cpu.A /\ cpu'.X = cpu.X /\ cpu'.Y = cpu.Y
               /\ cpu'.SP = cpu.SP /\ cpu'.P = cpu.P
               /\ \A i \in DOMAIN bus' : bus'[i][1] = "load"
               /\ retired' <=> cpu.instr.address_latched
               /\ retired' <=> (cpu.instr.cycle + 1 = cpu.instr.ncycles)]_vars

\* ADC abs,X has crossed a page: the stall made it five cycles, the uop ran
\* in the fourth tick and the fifth retired it
C30_Witness ==
    /\ ~aborted /\ call = "tick" /\ retired /\ done = <<125, 5>>
    /\ PageCrossed(125, cpu)

(* ------------------------------------------------------------------ *)
(* Probes of the address map                                           *)
(* ------------------------------------------------------------------ *)

\* r.base <= pa <= r.base + r.size - 1 over the integers, for a size >= 1: a
\* size of 0x10000 or more reaches past every 16-bit address
MathCovers(r, pa) ==
    r.base <= pa /\ (r.size[1] > 0 \/ pa - r.base < r.size[2])

\* the mapped regions that cover pa
Covering(pa) == {i \in 1..cpu.nregions : MathCovers(cpu.pa_map[i], pa)}

\* a call of mos6502_load_word or mos6502_store_word
AccessorCall == ~aborted /\ naccess' = naccess + 1

\* a call that made bus accesses and returned
AccessReturned == ~aborted /\ ~aborted' /\ call' \in {"tick", "reset", "load_word", "store_word"}

\* C21: a load or store of an address no mapped region covers is fatal,
\* whether tick, reset or a bypass accessor makes it, and an access to an
\* address some region covers resolves to exactly one region r with
\* r.base <= pa <= r.base + r.size - 1: a bypass accessor call aborts exactly
\* when no region covers its address, every access of a call that returned
\* went to an address covered by exactly one region, and map_addr yields it.
C21_ProbeResolves ==
    [][/\ AccessorCall => (aborted' <=> Covering(arg'[1]) = {})
       /\ AccessReturned =>
             \A i \in DOMAIN bus' :
                 /\ Cardinality(Covering(bus'[i][2])) = 1
                 /\ map_addr(cpu, bus'[i][2]) \in Covering(bus'[i][2])]_vars

\* C21 for the maps whose regions all end at or below 0xFFFF
C21_ProbeResolvesFitting ==
    [][AllFit =>
        /\ AccessorCall => (aborted' <=> Covering(arg'[1]) = {})
        /\ AccessReturned =>
              \A i \in DOMAIN bus' :
                  /\ Cardinality(Covering(bus'[i][2])) = 1
                  /\ map_addr(cpu, bus'[i][2]) \in Covering(bus'[i][2])]_vars

\* a bypass load of an unmapped address below a region has aborted
C21_UnmappedFatal ==
    /\ aborted /\ call = "load_word" /\ arg = <<5>>
    /\ cpu.nregions = 1 /\ cpu.pa_map[1].base = 32768

(* ------------------------------------------------------------------ *)
(* The bypass accessors                                                *)
(* ------------------------------------------------------------------ *)

\* a bypass accessor call on an address of a RAM region has returned
RamAccess ==
    /\ AccessorCall /\ ~aborted'
    /\ cpu.pa_map[map_addr(cpu, arg'[1])].is_ram

\* C22: mos6502_load_word and mos6502_store_word on a RAM-backed address
\* leave cycle, total_retired, PC, AB, A, X, Y, P, SP, DB, halted and instr
\* (and the region map) unchanged; a load changes no byte of memory and
\* returns the byte at addr; store_word(addr, v) changes only the byte at
\* addr, to v; and a load_word(addr) that follows store_word(addr, v)
\* returns v.
C22_BypassFrame ==
    [][RamAccess =>
        LET key == RamKey(cpu, arg'[1]) IN
        /\ cpu' = cpu
        /\ DOMAIN ram' = DOMAIN ram \cup {key}
        /\ \A k \in DOMAIN ram : k # key => ram'[k] = ram[k]
        /\ call' = "load_word" =>
              /\ key \in DOMAIN ram => ram'[key] = ram[key]
              /\ bus' = <<<<"load", arg'[1], ram'[key]>>>>
              /\ (call = "store_word" /\ arg[1] = arg'[1]) => bus'[1][3] = arg[2]
        /\ call' = "store_word" => ram'[key] = arg'[2]]_vars

\* in the middle of an instruction the host has stored 7 at 0x8001 and read
\* it back
C22_Witness ==
    /\ ~aborted /\ call = "load_word" /\ arg = <<32769>> /\ naccess = 2
    /\ bus = <<<<"load", 32769, 7>>>>
    /\ nresets = 1 /\ cpu.instr.cycle = 1 /\ cpu.cycle = 9

(* ------------------------------------------------------------------ *)
(* RAM and MMIO dispatch                                               *)
(* ------------------------------------------------------------------ *)

\* the accesses of the call being made that are stores: the bypass store
\* and the uop tick of STA
WritesNow ==
    \/ call' = "store_word"
    \/ /\ call' = "tick" /\ ~retired'
       /\ cpu.instr.uop = "STA" /\ cpu.instr.address_latched

\* C28: for an address pa of an MMIO region r, a load invokes r's handler
\* exactly once with is_write false and offset pa - r.base and returns the
\* byte the handler stored through the data pointer, and a store invokes it
\* exactly once with is_write true, the same offset and the stored byte as
\* data; no byte of RAM changes. For an address of a RAM region no handler
\* is invoked and the byte backing[pa - r.base] is read or written.
C28_Dispatch ==
    [][AccessReturned =>
        /\ \A i \in DOMAIN bus' :
              LET e == bus'[i]
                  r == cpu.pa_map[map_addr(cpu, e[2])]
              IN  IF r.is_ram
                  THEN /\ e[1] = (IF WritesNow THEN "store" ELSE "load")
                       /\ ram'[<<r.mapped, e[2] - r.base>>] = e[3]
                       /\ <<r.mapped, e[2] - r.base>> \in DOMAIN ram /\ ~WritesNow
                            => ram[<<r.mapped, e[2] - r.base>>] = e[3]
                  ELSE /\ e[1] = "mmio" /\ e[4] = WritesNow
                       /\ e[5] = e[2] - r.base /\ e[6] = r
                       /\ ram' = ram
        /\ AccessorCall =>
              /\ Len(bus') = 1 /\ bus'[1][2] = arg'[1]
              /\ call' = "store_word" => bus'[1][3] = arg'[2]
        /\ (call' = "tick" /\ ~retired' /\ cpu.instr.address_latched
              /\ cpu.instr.uop \in {"LDA", "STA"}) =>
              /\ Len(bus') = 1 /\ bus'[1][2] = cpu.AB
              /\ bus'[1][3] = cpu'.A
              /\ cpu.instr.uop = "STA" => cpu'.A = cpu.A]_vars

\* the host has read register 7 of the region at 0x0080 through its handler
C28_Witness ==
    /\ ~aborted /\ call = "load_word" /\ arg = <<135>>
    /\ Len(bus) = 1 /\ bus[1][1] = "mmio" /\ bus[1][3] = 128
    /\ ~bus[1][4] /\ bus[1][5] = 7 /\ bus[1][6].mapped = "io"

\* LDA abs, fetched from RAM at 0x8000, has read A from the handler of the
\* region at 0x0080, and STA abs has handed A to it
C28_TickReads ==
    /\ ~aborted /\ call = "tick" /\ ~retired /\ opcode = 173
    /\ bus = <<<<"mmio", 128, cpu.A, FALSE, 0, cpu.pa_map[1]>>>>
    /\ cpu.pa_map[1].mapped = "io" /\ cpu.pa_map[2].is_ram

C28_TickWrites ==
    /\ ~aborted /\ call = "tick" /\ ~retired /\ opcode = 141
    /\ bus = <<<<"mmio", 128, cpu.A, TRUE, 0, cpu.pa_map[1]>>>>

(* ------------------------------------------------------------------ *)
(* Every instruction retires                                           *)
(* ------------------------------------------------------------------ *)

\* a reset, running CPU whose one region maps all 64 KiB as RAM
FullyMapped ==
    /\ cpu.nregions = 1 /\ cpu.pa_map[1].base = 0
    /\ cpu.pa_map[1].size = U32(65536) /\ cpu.pa_map[1].is_ram

Running == ~aborted /\ nresets > 0 /\ ~cpu.halted /\ FullyMapped

C31_SupportedRetire ==
    \A n \in 0 .. Len(LiveShape) :
        (Running /\ opcode \in Countable /\ ntrue = n) ~> (ntrue = n + 1)

\* and they do so within 7 consecutive calls: no such state has seen 7 ticks
\* of its instruction return false, and the ticks left are ncycles - cycle
C31_WithinSeven ==
    (Running /\ opcode \in Countable) =>
        /\ nticks <= 6
        /\ nticks = cpu.instr.cycle
        /\ cpu.instr.cycle < cpu.instr.ncycles /\ cpu.instr.ncycles <= 7

\* INC abs,X has retired in its seventh tick
C31_SevenTicks ==
    /\ ~aborted /\ call = "tick" /\ retired /\ done = <<254, 7>> /\ FullyMapped

\* an instruction decoded from a byte without a table entry never retires:
\* its every tick returns false and leaves the CPU running, with ncycles 0
C31_UnsupportedNeverRetires ==
    [][(TickReturned /\ Running /\ opcode \in 0 .. (TableLen - 1) \ SupportedOpcodes)
         => /\ ~retired' /\ ~cpu'.halted
            /\ cpu'.instr.ncycles = 0 /\ cpu'.instr.uop = "NOP"
            /\ cpu'.instr.address_latched]_vars

\* such an instruction has been ticked seven times
C31_StuckState ==
    /\ Running /\ opcode = 0 /\ nticks = 7 /\ ~retired /\ call = "tick"

====
